---- MODULE Spec2Model ----
(***************************************************************************)
(* Model of the bilingo-vscode cross-language reference / implementation   *)
(* engine.                                                                 *)
(*                                                                         *)
(* Part 1 (specification Spec) is the request state machine of the two     *)
(* providers: BilingoReferenceProvider.provideReferences                   *)
(* (src/src/reference/provider.ts) and                                     *)
(* BilingoImplementationProvider.provideImplementation                     *)
(* (src/src/implementation/finder.ts, second half).  Every provider call   *)
(* is an asynchronous activation that runs atomically between two awaits.  *)
(* LiveSpec is the same machine with the fairness of calls that come back. *)
(*                                                                         *)
(* Part 2 is the matching engine: the workspace snapshot is drawn from     *)
(* bounded sets and the engine is applied to it.  MatchSpec and KindSpec   *)
(* run the scan, SelectSpec the scored finders, RequestSpec, FieldSpec,    *)
(* PropertySpec, EnumSpec, FailSpec and RepeatSpec the finders and the     *)
(* implementation provider at a cursor position, CaseSpec the two case     *)
(* conversions, ScoreSpec the match score.                                 *)
(***************************************************************************)
EXTENDS Naturals, Sequences, FiniteSets, TLC

VARIABLES
    refIsProcessingGlobal,   \* reference/provider.ts: let isProcessingGlobal
    implIsProcessingGlobal,  \* implementation provider: let isProcessingGlobal
    enable,                  \* configuration bilingo-vscode.enable
    acts,                    \* provider activations, in order of invocation
    ws,                      \* workspace snapshot: file -> document record
    strictExport,            \* configuration read by the finders
    req,                     \* the request handed to a finder
    res                      \* what the finder did with it

vars == <<refIsProcessingGlobal, implIsProcessingGlobal, enable, acts,
          ws, strictExport, req, res>>

providerVars == <<refIsProcessingGlobal, implIsProcessingGlobal, enable, acts>>
matchVars == <<ws, strictExport, req, res>>

(***************************************************************************)
(* Bounds of the provider state machine.                                   *)
(***************************************************************************)
MaxActs == 3     \* provider invocations per behaviour

Kinds == {"ref", "impl"}
LanguageIds == {"go", "typescript", "typescriptreact", "python"}
HandledLanguages == {"typescript", "typescriptreact", "go"}

(***************************************************************************)
(* provider.ts 19 / implementation provider 371: if (isProcessingGlobal).  *)
(* Each provider module declares its own flag.                             *)
(***************************************************************************)
GuardNeverHeld(k) == FALSE

GuardHeld(k) ==
    IF k = "ref" THEN refIsProcessingGlobal ELSE implIsProcessingGlobal

\* config.ts: isEnabledInWorkspace() reads bilingo-vscode.enable
isEnabledInWorkspace == enable

(***************************************************************************)
(* The synchronous prefix of provideReferences / provideImplementation:    *)
(* guard, enable, languageId, in this order; "accepted" is the path that   *)
(* reaches isProcessingGlobal = true.                                      *)
(***************************************************************************)
EntryOutcome(k, lang) ==
    IF GuardHeld(k) THEN "guard"
    ELSE IF ~isEnabledInWorkspace THEN "disabled"
    ELSE IF lang \notin HandledLanguages THEN "language"
    ELSE "accepted"

(***************************************************************************)
(* finally { isProcessingGlobal = false }: the value of the flag after     *)
(* the finally block, whatever the exit path of the try block was.         *)
(***************************************************************************)
FlagLeftSetOnThrow(k, exit) == exit = "throw"

FlagAfterFinally(k, exit) == FALSE

(***************************************************************************)
(* What the provider hands back to the editor for each exit of the try     *)
(* block.  provideReferences returns the finder's list as it is (possibly  *)
(* empty); provideImplementation returns null for an empty list; the       *)
(* catch block of both returns null.                                       *)
(***************************************************************************)
RethrowResult(k, exit, native) ==
    IF exit = "throw" THEN "exception" ELSE "locations"

ProviderResult(k, exit, native) ==
    IF exit = "throw" THEN "null"
    ELSE IF k = "ref"
         THEN (IF exit = "locations" THEN "locations" ELSE "emptylist")
         ELSE (IF native \/ exit = "locations" THEN "locations" ELSE "null")

(***************************************************************************)
(* The external calls a running activation can make next.                  *)
(*   plain        : openTextDocument, findFiles, executeDocumentSymbol-    *)
(*                  Provider, executeDefinitionProvider                    *)
(*   refProvider  : vscode.executeReferenceProvider, which invokes         *)
(*                  provideReferences of this extension again              *)
(*   implProvider : vscode.executeImplementationProvider, which invokes    *)
(*                  provideImplementation of this extension again          *)
(* findReferences never asks for implementations; provideImplementation    *)
(* asks the native provider first (TypeScript) or the symbol and           *)
(* definition providers (Go) and then runs findImplementations, which      *)
(* uses all three.                                                         *)
(***************************************************************************)
CallsOf(k, stage) ==
    IF k = "ref" THEN {"plain", "refProvider"}
    ELSE IF stage = "nativeGo" THEN {"plain"}
    ELSE IF stage = "nativeTs" THEN {"implProvider"}
    ELSE {"plain", "refProvider", "implProvider"}

(***************************************************************************)
(* How a call can end: "ok" (a value, possibly undefined), "caught" (it    *)
(* threw inside a try block of the finder, which logs and goes on),        *)
(* "uncaught" (it threw outside every inner try block and the exception    *)
(* reaches the provider).  Every executeReferenceProvider call of the      *)
(* finders sits in a try block; the calls of the native stage of           *)
(* provideImplementation sit in none.                                      *)
(***************************************************************************)
CallOutcomes(k, stage, call) ==
    IF call = "refProvider" THEN {"ok", "caught"}
    ELSE IF stage \in {"nativeGo", "nativeTs"} THEN {"ok", "uncaught"}
    ELSE {"ok", "caught", "uncaught"}

Activation(k, parent, entry, stage) ==
    [kind |-> k, parent |-> parent, entry |-> entry,
     pc |-> IF entry = "accepted" THEN "running" ELSE "returned",
     stage |-> stage, native |-> FALSE,
     exit |-> "none",
     result |-> IF entry = "accepted" THEN "pending" ELSE "null"]

(***************************************************************************)
(* The stage an accepted activation starts in.  provideReferences calls    *)
(* findReferences at once.  provideImplementation first collects the       *)
(* same-language locations: for go the declaration, through the symbol     *)
(* and definition providers (skipped when there is no word at the          *)
(* cursor), for typescript the native implementations.                     *)
(***************************************************************************)
FirstStages(k, lang) ==
    IF k = "ref" THEN {"finder"}
    ELSE IF lang = "go" THEN {"nativeGo", "finder"}
    ELSE {"nativeTs"}

SetFlag(k, v) ==
    /\ refIsProcessingGlobal' = IF k = "ref" THEN v ELSE refIsProcessingGlobal
    /\ implIsProcessingGlobal' = IF k = "impl" THEN v ELSE implIsProcessingGlobal

(***************************************************************************)
(* A provider is invoked (by the editor when parent = 0, by an execute...  *)
(* Provider call of activation parent otherwise) on a document of language *)
(* lang: the whole synchronous prefix up to the first await.  before is    *)
(* the activation list the new one is appended to.                         *)
(***************************************************************************)
Invoke(k, parent, lang, before) ==
    LET entry == EntryOutcome(k, lang) IN
    \E stage \in (IF entry = "accepted" THEN FirstStages(k, lang) ELSE {"none"}) :
        /\ acts' = Append(before, Activation(k, parent, entry, stage))
        /\ IF entry = "accepted"
           THEN SetFlag(k, TRUE)
           ELSE UNCHANGED <<refIsProcessingGlobal, implIsProcessingGlobal>>

\* the editor issues a top-level request
Request ==
    /\ Len(acts) < MaxActs
    /\ \E k \in Kinds, lang \in LanguageIds : Invoke(k, 0, lang, acts)
    /\ UNCHANGED <<enable, matchVars>>

\* the try block of activation a ends with exit: catch and finally run
Leave(a, exit) ==
    /\ acts' = [acts EXCEPT ![a].pc = "returned", ![a].exit = exit,
                   ![a].result = ProviderResult(acts[a].kind, exit, acts[a].native)]
    /\ SetFlag(acts[a].kind, FlagAfterFinally(acts[a].kind, exit))

(***************************************************************************)
(* A running activation resumes from the await of a plain external call.   *)
(* In the go stage of provideImplementation a declaration found is pushed  *)
(* to allImplementations and findImplementations follows at some point.    *)
(***************************************************************************)
PlainCall ==
    \E a \in DOMAIN acts :
        /\ acts[a].pc = "running"
        /\ "plain" \in CallsOf(acts[a].kind, acts[a].stage)
        /\ \E o \in CallOutcomes(acts[a].kind, acts[a].stage, "plain") :
              IF o = "uncaught"
              THEN Leave(a, "throw")
              ELSE /\ \E found \in BOOLEAN,
                         next \in (IF acts[a].stage = "nativeGo"
                                   THEN {"nativeGo", "finder"} ELSE {"finder"}) :
                         acts' = [acts EXCEPT ![a].stage = next,
                                     ![a].native = IF acts[a].stage = "nativeGo"
                                                   THEN @ \/ found ELSE @]
                   /\ UNCHANGED <<refIsProcessingGlobal, implIsProcessingGlobal>>
        /\ UNCHANGED <<enable, matchVars>>

(***************************************************************************)
(* A running activation calls vscode.executeReferenceProvider or           *)
(* vscode.executeImplementationProvider: the editor invokes the registered *)
(* providers, this extension's among them, on a go / ts / tsx document.    *)
(***************************************************************************)
ExecuteProvider ==
    \E a \in DOMAIN acts :
        /\ acts[a].pc = "running"
        /\ Len(acts) < MaxActs
        /\ \E call \in CallsOf(acts[a].kind, acts[a].stage) \ {"plain"},
              lang \in HandledLanguages :
              Invoke(IF call = "refProvider" THEN "ref" ELSE "impl", a, lang,
                     [acts EXCEPT ![a].pc = "awaiting"])
        /\ UNCHANGED <<enable, matchVars>>

\* the call activation a waits on, by the provider it last invoked
PendingCall(a) ==
    LET kids == {c \in DOMAIN acts : acts[c].parent = a}
        last == CHOOSE c \in kids : \A d \in kids : d <= c
    IN IF acts[last].kind = "ref" THEN "refProvider" ELSE "implProvider"

(***************************************************************************)
(* The execute...Provider call of a resolves once every provider it        *)
(* invoked has returned.  In the typescript stage of provideImplementation *)
(* the native implementations are pushed to allImplementations and         *)
(* findImplementations is called next.                                     *)
(***************************************************************************)
ProviderCallReturns ==
    \E a \in DOMAIN acts :
        /\ acts[a].pc = "awaiting"
        /\ \A c \in DOMAIN acts : acts[c].parent = a => acts[c].pc = "returned"
        /\ \E o \in CallOutcomes(acts[a].kind, acts[a].stage, PendingCall(a)) :
              IF o = "uncaught"
              THEN Leave(a, "throw")
              ELSE /\ \E found \in BOOLEAN :
                         acts' = [acts EXCEPT ![a].pc = "running",
                                     ![a].stage = "finder",
                                     ![a].native = IF acts[a].stage = "nativeTs"
                                                   THEN found ELSE @]
                   /\ UNCHANGED <<refIsProcessingGlobal, implIsProcessingGlobal>>
        /\ UNCHANGED <<enable, matchVars>>

(***************************************************************************)
(* findReferences / findImplementations returns its list and the provider  *)
(* returns.                                                                *)
(***************************************************************************)
FinderReturns ==
    \E a \in DOMAIN acts :
        /\ acts[a].pc = "running"
        /\ acts[a].stage = "finder"
        /\ \E exit \in {"locations", "empty"} : Leave(a, exit)
        /\ UNCHANGED <<enable, matchVars>>

\* the user edits the setting bilingo-vscode.enable
ConfigChange ==
    /\ enable' = ~enable
    /\ UNCHANGED <<refIsProcessingGlobal, implIsProcessingGlobal, acts, matchVars>>

\* the files for which an external call throws: the document or its symbol
\* tree cannot be fetched, its references or its implementations cannot
NoFailure == [symbols |-> {}, references |-> {}, implementations |-> {}]

NoWorkspace ==
    [files |-> <<>>, symbols |-> <<>>, usages |-> <<>>, open |-> <<>>,
     declarationFirst |-> TRUE, definitionLinks |-> FALSE, failing |-> NoFailure]
NoRequest == [op |-> "none"]
NoResult == [op |-> "none"]

Init ==
    /\ refIsProcessingGlobal = FALSE
    /\ implIsProcessingGlobal = FALSE
    /\ enable = TRUE
    /\ acts = <<>>
    /\ ws = NoWorkspace
    /\ strictExport = FALSE
    /\ req = NoRequest
    /\ res = NoResult

Next ==
    \/ Request
    \/ PlainCall
    \/ ExecuteProvider
    \/ ProviderCallReturns
    \/ FinderReturns
    \/ ConfigChange

Spec == Init /\ [][Next]_vars

(***************************************************************************)
(* Part 2: the matching engine (src/src/utils.ts and the two finders).     *)
(*                                                                         *)
(* Identifiers are sequences of one-character strings.  A file is a record *)
(* [dir, base, ext]; the workspace ws lists the files in the order         *)
(* vscode.workspace.findFiles reports them and gives each its document     *)
(* symbol tree.  A top-level symbol is                                     *)
(*   [name, kind, decl, export, range, children]                           *)
(* where decl and export describe the text of the declaration line         *)
(* (export: the line starts with the export keyword), range = <<first      *)
(* line, last line>> and the selection range is the name on the first      *)
(* line.  A child symbol is [name, kind, line, jsonTag, span]: its range   *)
(* is <<line, line + span>>.                                               *)
(***************************************************************************)
LowerCase == <<"a", "b", "i", "k", "s">>
UpperCase == <<"A", "B", "I", "K", "S">>

\* three letters outside ASCII that Go and TS identifiers may contain:
\* U+00DF (sharp s), U+0131 (dotless i) and U+212A (the Kelvin sign)
SharpS == "U+00DF"
DotlessI == "U+0131"
KelvinSign == "U+212A"

\* String.prototype.toUpperCase / toLowerCase on a one-character string:
\* the result is a string, of two characters for the sharp s
toUpperCase(c) ==
    IF \E i \in DOMAIN LowerCase : LowerCase[i] = c
    THEN <<UpperCase[CHOOSE i \in DOMAIN LowerCase : LowerCase[i] = c]>>
    ELSE IF c = SharpS THEN <<"S", "S">>
    ELSE IF c = DotlessI THEN <<"I">>
    ELSE <<c>>

toLowerCase(c) ==
    IF \E i \in DOMAIN UpperCase : UpperCase[i] = c
    THEN <<LowerCase[CHOOSE i \in DOMAIN UpperCase : UpperCase[i] = c]>>
    ELSE IF c = KelvinSign THEN <<"k">>
    ELSE <<c>>

\* utils.ts 83-94
swapFirstLetterCase(str) ==
    IF str = <<>> THEN str
    ELSE IF toUpperCase(Head(str)) = <<Head(str)>>
    THEN toLowerCase(Head(str)) \o Tail(str)
    ELSE toUpperCase(Head(str)) \o Tail(str)

capitalizeFirstLetter(str) ==
    IF str = <<>> THEN str ELSE toUpperCase(Head(str)) \o Tail(str)

lowercaseFirstLetter(str) ==
    IF str = <<>> THEN str ELSE toLowerCase(Head(str)) \o Tail(str)

\* utils.ts 99-103: firstChar === firstChar.toUpperCase()
isGoSymbolExported(symbolName) ==
    IF symbolName = <<>> THEN FALSE
    ELSE LET firstChar == symbolName[1] IN <<firstChar>> = toUpperCase(firstChar)

\* Array.prototype.includes
includes(arr, x) == \E i \in DOMAIN arr : arr[i] = x

Uri(dir, base, ext) == [dir |-> dir, base |-> base, ext |-> ext]

\* path.dirname(fileUri.fsPath)
dirname(fileUri) == fileUri.dir

\* the language the editor assigns to a file by its extension
languageIdOf(fileUri) ==
    IF fileUri.ext = "go" THEN "go"
    ELSE IF fileUri.ext = "ts" THEN "typescript"
    ELSE IF fileUri.ext = "tsx" THEN "typescriptreact"
    ELSE "plaintext"

isTs(languageId) == languageId \in {"typescript", "typescriptreact"}

Symbol(name, kind, decl, export, from, to, children) ==
    [name |-> name, kind |-> kind, decl |-> decl, export |-> export,
     range |-> <<from, to>>, children |-> children]

Member(name, kind, line, jsonTag) ==
    [name |-> name, kind |-> kind, line |-> line, jsonTag |-> jsonTag, span |-> 0]

\* vscode.executeDocumentSymbolProvider
documentSymbols(fileUri) ==
    IF fileUri \in DOMAIN ws.symbols THEN ws.symbols[fileUri] ELSE <<>>

(***************************************************************************)
(* utils.ts 108-127: vscode.workspace.findFiles(new RelativePattern(       *)
(* dirname, "*.go")) and (dirname, "*.{ts,tsx}").                          *)
(***************************************************************************)
findFilesInSameDirectory(fileUri) ==
    SelectSeq(ws.files, LAMBDA f : dirname(f) = dirname(fileUri))

findGoFilesInSameDirectory(fileUri) ==
    SelectSeq(ws.files, LAMBDA f : dirname(f) = dirname(fileUri) /\ f.ext = "go")

findTsFilesInSameDirectory(fileUri) ==
    SelectSeq(ws.files,
              LAMBDA f : dirname(f) = dirname(fileUri) /\ f.ext \in {"ts", "tsx"})

\* for (const fileUri of files) ... for (const symbol of symbols): the
\* symbols of the files in the order the two loops visit them
RECURSIVE symbolsOfFiles(_)
symbolsOfFiles(files) ==
    IF files = <<>> THEN <<>>
    ELSE LET fileUri == Head(files)
             symbols == documentSymbols(fileUri)
         IN (IF fileUri \in ws.failing.symbols THEN <<>>
             ELSE [i \in 1..Len(symbols) |->
                      [fileUri |-> fileUri, index |-> i, symbol |-> symbols[i]]])
            \o symbolsOfFiles(Tail(files))

\* utils.ts 694-699
isSymbolNested(range, parentRange) ==
    /\ parentRange[1] <= range[1]
    /\ range[2] <= parentRange[2]
    /\ parentRange # range

\* utils.ts 660-689; index is the place of the symbol in allSymbols
isFunctionSymbol(index, allSymbols) == allSymbols[index].kind = "Function"

isTopLevelFunction(index, allSymbols) ==
    /\ allSymbols[index].kind = "Function"
    /\ \A j \in DOMAIN allSymbols :
          j # index =>
             /\ ~(/\ allSymbols[j].kind = "Function"
                  /\ isSymbolNested(allSymbols[index].range, allSymbols[j].range))
             /\ \A c \in DOMAIN allSymbols[j].children :
                   LET child == allSymbols[j].children[c] IN
                   ~(/\ child.kind = "Function"
                     /\ isSymbolNested(allSymbols[index].range,
                                       <<child.line, child.line + child.span>>))

\* the score with the exact name weighed above the accessibility
calculateMatchScoreNameFirst(symbolName, targetNames, isCandidateExported, isSourceExported) ==
    LET exactName == symbolName = targetNames[1]
        sameAccessibility == isSourceExported = isCandidateExported
    IN IF sameAccessibility /\ exactName THEN 3
       ELSE IF exactName THEN 2
       ELSE IF sameAccessibility THEN 1
       ELSE 0
\* utils.ts 333-351
calculateMatchScore(symbolName, targetNames, isCandidateExported, isSourceExported) ==
    LET exactName == symbolName = targetNames[1]
        sameAccessibility == isSourceExported = isCandidateExported
    IN IF sameAccessibility /\ exactName THEN 3
       ELSE IF sameAccessibility THEN 2
       ELSE IF exactName THEN 1
       ELSE 0

\* candidates.sort((a, b) => b.score - a.score): stable, higher score first
leftUnsorted(candidates) == candidates

RECURSIVE sortByScore(_)
sortByScore(candidates) ==
    IF candidates = <<>> THEN <<>>
    ELSE LET scores == {candidates[i].score : i \in DOMAIN candidates}
             best == CHOOSE s \in scores : \A t \in scores : t <= s
         IN SelectSeq(candidates, LAMBDA c : c.score = best)
            \o sortByScore(SelectSeq(candidates, LAMBDA c : c.score # best))

\* /^\s*export\s+/.test(line) on the declaration line of a TS symbol
isTsLineExported(symbol) == symbol.export

\* utils.ts 418 and 570: the accessibility check of strict mode
StrictNeverRejects(strict, isSourceExported, isCandidateExported) == FALSE

StrictRejects(strict, isSourceExported, isCandidateExported) ==
    strict /\ isSourceExported # isCandidateExported

\* one scored candidate of a scan
Candidate(entry, score) ==
    [symbol |-> entry.symbol, fileUri |-> entry.fileUri, score |-> score]

\* utils.ts 389-442: TS function -> Go function
findGoFunctionForTsFunctionViaMatching(goFiles, symbolNames, isSourceExported, strictAccessibility) ==
    LET accepted == SelectSeq(symbolsOfFiles(goFiles), LAMBDA e :
            /\ e.symbol.kind = "Function"
            /\ includes(symbolNames, e.symbol.name)
            /\ isTopLevelFunction(e.index, documentSymbols(e.fileUri))
            /\ ~StrictRejects(strictAccessibility, isSourceExported,
                              isGoSymbolExported(e.symbol.name)))
    IN sortByScore([i \in 1..Len(accepted) |->
           Candidate(accepted[i],
                     calculateMatchScore(accepted[i].symbol.name, symbolNames,
                                         isGoSymbolExported(accepted[i].symbol.name),
                                         isSourceExported))])

\* utils.ts 448-493: TS interface -> Go struct
findGoStructForTsInterfaceViaMatching(goFiles, symbolNames) ==
    LET accepted == SelectSeq(symbolsOfFiles(goFiles), LAMBDA e :
            /\ e.symbol.kind = "Struct"
            /\ includes(symbolNames, e.symbol.name)
            /\ isGoSymbolExported(e.symbol.name))
    IN sortByScore([i \in 1..Len(accepted) |->
           Candidate(accepted[i],
                     IF symbolNames[1] = accepted[i].symbol.name THEN 100 ELSE 90)])

\* utils.ts 357-383
findMatchingSymbolsInGoFiles(goFiles, symbolNames, isSourceExported, symbolKind, strictAccessibility) ==
    IF symbolKind = "Function"
    THEN findGoFunctionForTsFunctionViaMatching(goFiles, symbolNames,
                                                isSourceExported, strictAccessibility)
    ELSE IF symbolKind = "Interface"
    THEN findGoStructForTsInterfaceViaMatching(goFiles, symbolNames)
    ELSE <<>>

\* utils.ts 531-594: Go function -> TS function
findTsFunctionForGoFunctionViaMatching(tsFiles, symbolNames, isSourceExported, strictAccessibility) ==
    LET accepted == SelectSeq(symbolsOfFiles(tsFiles), LAMBDA e :
            /\ e.symbol.kind = "Function"
            /\ includes(symbolNames, e.symbol.name)
            /\ isTopLevelFunction(e.index, documentSymbols(e.fileUri))
            /\ ~StrictRejects(strictAccessibility, isSourceExported,
                              isTsLineExported(e.symbol)))
    IN sortByScore([i \in 1..Len(accepted) |->
           Candidate(accepted[i],
                     calculateMatchScore(accepted[i].symbol.name, symbolNames,
                                         isTsLineExported(accepted[i].symbol),
                                         isSourceExported))])

\* utils.ts 600-655: Go struct -> TS interface
findTsInterfaceForGoStructViaMatching(tsFiles, symbolNames) ==
    LET accepted == SelectSeq(symbolsOfFiles(tsFiles), LAMBDA e :
            /\ e.symbol.kind = "Interface"
            /\ includes(symbolNames, e.symbol.name)
            /\ isTsLineExported(e.symbol))
    IN sortByScore([i \in 1..Len(accepted) |->
           Candidate(accepted[i],
                     IF symbolNames[1] = accepted[i].symbol.name THEN 100 ELSE 90)])

\* utils.ts 499-525
findMatchingSymbolsInTsFiles(tsFiles, symbolNames, isSourceExported, symbolKind, strictAccessibility) ==
    IF symbolKind = "Function"
    THEN findTsFunctionForGoFunctionViaMatching(tsFiles, symbolNames,
                                                isSourceExported, strictAccessibility)
    ELSE IF symbolKind = "Struct"
    THEN findTsInterfaceForGoStructViaMatching(tsFiles, symbolNames)
    ELSE <<>>

(***************************************************************************)
(* The accepted names of a scan: reference/finder.ts 551-554 and 575-576,  *)
(* implementation/finder.ts 160-163 and 184-185.                           *)
(***************************************************************************)
\* the two names with the source's own name first
goSearchNamesOwnFirst(symbolName) ==
    LET capitalizedName == capitalizeFirstLetter(symbolName)
    IN IF symbolName = capitalizedName THEN <<symbolName>>
       ELSE <<symbolName, capitalizedName>>
goSearchNames(symbolName) ==
    LET capitalizedName == capitalizeFirstLetter(symbolName)
    IN IF symbolName = capitalizedName THEN <<symbolName>>
       ELSE <<capitalizedName, symbolName>>

tsSearchNames(symbolName) ==
    LET lowercasedName == lowercaseFirstLetter(symbolName)
    IN IF symbolName = lowercasedName THEN <<symbolName>>
       ELSE <<lowercasedName, symbolName>>

\* the strict setting as the finders read it: isStrictExportEnabled()
\* (implementation finder) / isStrictAccessibilityEnabled() (reference
\* finder, the same setting under its former name)
isStrictExportEnabled == strictExport

(***************************************************************************)
(* Positions, locations and the answers of the language servers.  A name   *)
(* sits at character 1 of its line, a declaration starts at character 0.   *)
(* ws.usages lists the places that use a declared name: [uri, line, name,  *)
(* target, role], role "use" for a plain use and "impl" for a type that    *)
(* implements the target interface.                                        *)
(***************************************************************************)
null == [null |-> TRUE]

Position(line, character) == [line |-> line, character |-> character]

Location(uri, position) ==
    [uri |-> uri, line |-> position.line, character |-> position.character]

\* location.range.start
rangeStart(location) == Position(location.line, location.character)

selectionRangeStart(symbol) == Position(symbol.range[1], 1)

selectionRangeContains(symbol, position) == position = selectionRangeStart(symbol)

rangeContains(symbol, position) ==
    symbol.range[1] <= position.line /\ position.line <= symbol.range[2]

childStart(child) == Position(child.line, 1)

\* child.selectionRange.contains(position) || child.range.contains(position)
childContains(child, position) == position.line = child.line

\* const x = value; Body(x)
With(value, Body(_)) == Body(value)

\* the value a "for ... if ... return" loop returns
firstOf(seq) == IF seq = <<>> THEN null ELSE Head(seq)

\* the members of the symbols, in the order of the nested loops
RECURSIVE membersOfEntries(_)
membersOfEntries(entries) ==
    IF entries = <<>> THEN <<>>
    ELSE LET e == Head(entries)
         IN [c \in 1..Len(e.symbol.children) |->
                [fileUri |-> e.fileUri, symbol |-> e.symbol,
                 child |-> e.symbol.children[c]]]
            \o membersOfEntries(Tail(entries))

\* the names a file declares, with their lines
declaredNames(uri) ==
    LET symbols == documentSymbols(uri)
    IN {[line |-> symbols[i].range[1], name |-> symbols[i].name] :
            i \in DOMAIN symbols}
       \cup UNION {{[line |-> symbols[i].children[c].line,
                     name |-> symbols[i].children[c].name] :
                        c \in DOMAIN symbols[i].children} : i \in DOMAIN symbols}

usesAt(uri, line) ==
    SelectSeq(ws.usages, LAMBDA u : u.uri = uri /\ u.line = line /\ u.role = "use")

\* document.getText(document.getWordRangeAtPosition(position)); <<>> if none
wordAt(uri, position) ==
    With({d \in declaredNames(uri) : d.line = position.line}, LAMBDA declared :
    With(usesAt(uri, position.line), LAMBDA uses :
        IF position.character # 1 THEN <<>>
        ELSE IF declared # {} THEN (CHOOSE d \in declared : TRUE).name
        ELSE IF uses # <<>> THEN uses[1].name
        ELSE <<>>))

\* the declared name the identifier at the position resolves to
targetAt(uri, position) ==
    With({d \in declaredNames(uri) : d.line = position.line}, LAMBDA declared :
    With(usesAt(uri, position.line), LAMBDA uses :
        IF position.character # 1 THEN null
        ELSE IF declared # {} THEN Location(uri, position)
        ELSE IF uses # <<>> THEN uses[1].target
        ELSE null))

\* vscode.executeReferenceProvider: the declaration and the places that use
\* it, in the order the language server lists them
executeReferenceProvider(uri, position) ==
    With(targetAt(uri, position), LAMBDA target :
    With(SelectSeq(ws.usages, LAMBDA u : u.target = target), LAMBDA uses :
    With([i \in 1..Len(uses) |-> Location(uses[i].uri, Position(uses[i].line, 1))],
         LAMBDA useLocations :
        IF target = null THEN <<>>
        ELSE IF ws.declarationFirst THEN <<target>> \o useLocations
        ELSE useLocations \o <<target>>)))

\* vscode.executeDefinitionProvider: a Location of the name, or (TS server)
\* a LocationLink whose targetRange starts where the declaration starts
executeDefinitionProvider(uri, position) ==
    With(targetAt(uri, position), LAMBDA target :
        IF target = null THEN <<>>
        ELSE IF ws.definitionLinks /\ isTs(languageIdOf(target.uri))
        THEN <<Location(target.uri, Position(target.line, 0))>>
        ELSE <<target>>)

\* vscode.executeImplementationProvider of the language server
executeImplementationProvider(uri, position) ==
    With(targetAt(uri, position), LAMBDA target :
    With(SelectSeq(ws.usages, LAMBDA u : u.target = target /\ u.role = "impl"),
         LAMBDA impls :
        IF target = null THEN <<>>
        ELSE [i \in 1..Len(impls) |->
                 Location(impls[i].uri, Position(impls[i].line, 1))]))

\* utils.ts 11-37: getSymbolNameAtPosition / getFunctionNameAtPosition
getSymbolNameAtPosition(uri, position) == wordAt(uri, position)

\* utils.ts 132-170
isSymbolExported(fileUri, position, symbolName, languageId, symbolKind) ==
    IF languageId = "go" THEN isGoSymbolExported(symbolName)
    ELSE IF isTs(languageId)
    THEN With(firstOf(SelectSeq(documentSymbols(fileUri), LAMBDA symbol :
                          /\ symbol.kind = symbolKind
                          /\ symbol.name = symbolName
                          /\ rangeContains(symbol, position))),
              LAMBDA found : IF found = null THEN FALSE ELSE isTsLineExported(found))
    ELSE FALSE

DeclarationKinds == {"Function", "Struct", "Interface"}

\* what the lookups below read of the symbol they find
Declared(name, kind, start) == [name |-> name, kind |-> kind, start |-> start]

\* the symbols and their children in the order of the recursive search
RECURSIVE symbolTree(_)
symbolTree(symbols) ==
    IF symbols = <<>> THEN <<>>
    ELSE LET symbol == Head(symbols)
         IN <<Declared(symbol.name, symbol.kind, selectionRangeStart(symbol))>>
            \o [c \in 1..Len(symbol.children) |->
                   Declared(symbol.children[c].name, symbol.children[c].kind,
                            childStart(symbol.children[c]))]
            \o symbolTree(Tail(symbols))

\* utils.ts 181-207
findSymbolAtLocation(symbols, position) ==
    firstOf(SelectSeq(symbolTree(symbols), LAMBDA d :
              d.kind \in DeclarationKinds /\ d.start = position))

\* implementation provider, findSymbolAtCursor (implementation/finder.ts 524-544)
findSymbolAtCursor(symbols, position) ==
    firstOf(SelectSeq(symbolTree(symbols), LAMBDA d : d.start = position))

DeclarationInfo(location, kind) == [location |-> location, kind |-> kind]

\* utils.ts 214-262
findDeclarationLocationViaReferences(uri, position, symbolName) ==
    With(executeReferenceProvider(uri, position), LAMBDA references :
    With([i \in DOMAIN references |->
             [ref |-> references[i],
              declaration |-> findSymbolAtLocation(documentSymbols(references[i].uri),
                                                   rangeStart(references[i]))]],
         LAMBDA looked :
    With(SelectSeq(looked, LAMBDA l :
             l.declaration # null /\ l.declaration.name = symbolName),
         LAMBDA hits :
        IF references = <<>> THEN null
        ELSE IF hits # <<>>
        THEN DeclarationInfo(Location(hits[1].ref.uri, hits[1].declaration.start),
                             hits[1].declaration.kind)
        ELSE DeclarationInfo(references[1], "Function"))))

SymbolInfo(name, kind, location, isExported) ==
    [name |-> name, kind |-> kind, location |-> location, isExported |-> isExported]

\* utils.ts 1676-1724
getSymbolInfoAtPosition(uri, position) ==
    With(getSymbolNameAtPosition(uri, position), LAMBDA symbolName :
    With(findDeclarationLocationViaReferences(uri, position, symbolName),
         LAMBDA declarationInfo :
        IF symbolName = <<>> THEN null
        ELSE IF declarationInfo = null THEN null
        ELSE With(isSymbolExported(declarationInfo.location.uri,
                                   rangeStart(declarationInfo.location),
                                   symbolName, languageIdOf(uri), declarationInfo.kind),
                  LAMBDA isExported :
                      IF declarationInfo.kind \in {"Struct", "Interface"} /\ ~isExported
                      THEN null
                      ELSE SymbolInfo(symbolName, declarationInfo.kind,
                                      declarationInfo.location, isExported))))

(***************************************************************************)
(* Enum constants and enum types (utils.ts 769-1451).  decl = "enumconst"  *)
(* stands for a declaration line with an explicit capitalized type that    *)
(* prefixes the name and a literal value (Go), or an exported const with   *)
(* a literal value or type (TS); decl = "enumtype" for `type X = string`   *)
(* (Go) and `export type X = typeof XA | ...` (TS).                        *)
(***************************************************************************)
EnumInfo(name, symbol, fileUri) ==
    [name |-> name, symbol |-> symbol, fileUri |-> fileUri]

\* /^[A-Z]/.test(name)
isCapitalized(name) ==
    name # <<>> /\ \E i \in DOMAIN UpperCase : UpperCase[i] = name[1]

\* utils.ts 938-941
hasAtLeastTwoUppercaseLetters(name) ==
    Cardinality({i \in DOMAIN name :
                    \E j \in DOMAIN UpperCase : UpperCase[j] = name[i]}) >= 2

\* utils.ts 963-997
isGoEnumConst(symbol) ==
    /\ symbol.decl = "enumconst"
    /\ isCapitalized(symbol.name)
    /\ hasAtLeastTwoUppercaseLetters(symbol.name)

\* utils.ts 1002-1025
isTsEnumConst(symbol) ==
    /\ symbol.decl = "enumconst"
    /\ symbol.export
    /\ isCapitalized(symbol.name)
    /\ hasAtLeastTwoUppercaseLetters(symbol.name)

\* the line matches /type\s+\w+\s*=\s*(string|int...)/
isGoEnumTypeLine(symbol) == symbol.decl = "enumtype"

\* the line matches /export\s+type\s+Name\s*=/ and carries typeof Name[A-Z]
\* on it or on the next line
isTsEnumTypeLine(symbol) == symbol.decl = "enumtype" /\ symbol.export

\* the first entry of the definition provider: [uri, position], or null
firstDefinition(uri, position) ==
    With(executeDefinitionProvider(uri, position), LAMBDA definitions :
        IF definitions = <<>> THEN null
        ELSE [uri |-> definitions[1].uri, position |-> rangeStart(definitions[1])])

\* utils.ts 1031-1059 and 1096-1127
findGoEnumConstAtPosition(uri, position, symbols) ==
    With(firstOf(SelectSeq(symbols, LAMBDA symbol :
                     /\ symbol.kind = "Constant"
                     /\ (selectionRangeContains(symbol, position)
                            \/ rangeContains(symbol, position))
                     /\ isGoEnumConst(symbol))),
         LAMBDA found :
             IF found = null THEN null ELSE EnumInfo(found.name, found, uri))

findTsEnumConstAtPosition(uri, position, symbols) ==
    With(firstOf(SelectSeq(symbols, LAMBDA symbol :
                     /\ symbol.kind \in {"Constant", "Variable"}
                     /\ (selectionRangeContains(symbol, position)
                            \/ rangeContains(symbol, position))
                     /\ isTsEnumConst(symbol))),
         LAMBDA found :
             IF found = null THEN null ELSE EnumInfo(found.name, found, uri))

\* utils.ts 1065-1091 and 1133-1163
findGoEnumConstByNameAndLine(uri, constName, line, symbols) ==
    With(firstOf(SelectSeq(symbols, LAMBDA symbol :
                     /\ symbol.kind = "Constant"
                     /\ symbol.name = constName
                     /\ symbol.range[1] = line
                     /\ isGoEnumConst(symbol))),
         LAMBDA found :
             IF found = null THEN null ELSE EnumInfo(found.name, found, uri))

findTsEnumConstByNameAndLine(uri, constName, line, symbols) ==
    With(firstOf(SelectSeq(symbols, LAMBDA symbol :
                     /\ symbol.kind \in {"Constant", "Variable"}
                     /\ symbol.name = constName
                     /\ symbol.range[1] = line
                     /\ isTsEnumConst(symbol))),
         LAMBDA found :
             IF found = null THEN null ELSE EnumInfo(found.name, found, uri))

\* utils.ts 847-933
findEnumConstAtUsagePosition(uri, position) ==
    With(wordAt(uri, position), LAMBDA word :
    With(firstDefinition(uri, position), LAMBDA definition :
        IF word = <<>> THEN null
        ELSE IF <<word[1]>> # toUpperCase(word[1]) THEN null
        ELSE IF ~hasAtLeastTwoUppercaseLetters(word) THEN null
        ELSE IF definition = null THEN null
        ELSE IF languageIdOf(definition.uri) = "go"
        THEN findGoEnumConstByNameAndLine(definition.uri, word,
                 definition.position.line, documentSymbols(definition.uri))
        ELSE IF isTs(languageIdOf(definition.uri))
        THEN findTsEnumConstByNameAndLine(definition.uri, word,
                 definition.position.line, documentSymbols(definition.uri))
        ELSE null))

\* utils.ts 769-801
getEnumConstInfoAtPosition(uri, position) ==
    With(IF languageIdOf(uri) = "go"
         THEN findGoEnumConstAtPosition(uri, position, documentSymbols(uri))
         ELSE IF isTs(languageIdOf(uri))
         THEN findTsEnumConstAtPosition(uri, position, documentSymbols(uri))
         ELSE null,
         LAMBDA constInfo :
             IF constInfo # null THEN constInfo
             ELSE findEnumConstAtUsagePosition(uri, position))

\* utils.ts 1168-1201
findGoEnumTypeAtPosition(uri, position, symbols) ==
    With(firstOf(SelectSeq(symbols, LAMBDA symbol :
                     /\ symbol.kind \in {"Class", "Interface"}
                     /\ (selectionRangeContains(symbol, position)
                            \/ rangeContains(symbol, position))
                     /\ isGoEnumTypeLine(symbol)
                     /\ isCapitalized(symbol.name))),
         LAMBDA found :
             IF found = null THEN null ELSE EnumInfo(found.name, found, uri))

\* utils.ts 1206-1272: the line at the cursor is read, then the first symbol
\* of that name is taken
findTsEnumTypeAtPosition(uri, position, symbols) ==
    With(firstOf(SelectSeq(symbols, LAMBDA symbol :
             symbol.range[1] = position.line /\ isTsEnumTypeLine(symbol))),
         LAMBDA onLine :
             IF onLine = null THEN null
             ELSE With(firstOf(SelectSeq(symbols, LAMBDA symbol :
                           symbol.name = onLine.name)),
                       LAMBDA found : EnumInfo(found.name, found, uri)))

\* utils.ts 1351-1383
findGoEnumTypeByNameAndLine(uri, typeName, line, symbols) ==
    With(firstOf(SelectSeq(symbols, LAMBDA symbol :
                     /\ symbol.kind \in {"Class", "Interface"}
                     /\ symbol.name = typeName
                     /\ symbol.range[1] = line
                     /\ isGoEnumTypeLine(symbol)
                     /\ isCapitalized(symbol.name))),
         LAMBDA found :
             IF found = null THEN null ELSE EnumInfo(found.name, found, uri))

\* utils.ts 1388-1451
findTsEnumTypeByNameAndLine(uri, typeName, line, symbols) ==
    With(firstOf(SelectSeq(symbols, LAMBDA symbol :
                     /\ symbol.name = typeName
                     /\ symbol.range[1] = line
                     /\ isTsEnumTypeLine(symbol))),
         LAMBDA found :
             IF found = null THEN null ELSE EnumInfo(found.name, found, uri))

\* utils.ts 1277-1346
findEnumTypeAtUsagePosition(uri, position) ==
    With(wordAt(uri, position), LAMBDA word :
    With(firstDefinition(uri, position), LAMBDA definition :
        IF word = <<>> THEN null
        ELSE IF <<word[1]>> # toUpperCase(word[1]) THEN null
        ELSE IF definition = null THEN null
        ELSE IF languageIdOf(definition.uri) = "go"
        THEN findGoEnumTypeByNameAndLine(definition.uri, word,
                 definition.position.line, documentSymbols(definition.uri))
        ELSE IF isTs(languageIdOf(definition.uri))
        THEN findTsEnumTypeByNameAndLine(definition.uri, word,
                 definition.position.line, documentSymbols(definition.uri))
        ELSE null))

\* utils.ts 808-841
getEnumTypeInfoAtPosition(uri, position) ==
    With(IF languageIdOf(uri) = "go"
         THEN findGoEnumTypeAtPosition(uri, position, documentSymbols(uri))
         ELSE IF isTs(languageIdOf(uri))
         THEN findTsEnumTypeAtPosition(uri, position, documentSymbols(uri))
         ELSE null,
         LAMBDA typeInfo :
             IF typeInfo # null THEN typeInfo
             ELSE findEnumTypeAtUsagePosition(uri, position))

(***************************************************************************)
(* Interfaces, interface methods and fields: the classifiers at the cursor *)
(* and the lookups of the counterpart (utils.ts 1458-2835).                *)
(***************************************************************************)
InterfaceInfo(name, symbol, fileUri, isExported, hasMethods) ==
    [name |-> name, symbol |-> symbol, fileUri |-> fileUri,
     isExported |-> isExported, hasMethods |-> hasMethods]

InterfaceMethodInfo(name, parentSymbol, methodSymbol, fileUri, isExported) ==
    [name |-> name, parentSymbol |-> parentSymbol, methodSymbol |-> methodSymbol,
     fileUri |-> fileUri, isExported |-> isExported]

FieldInfo(name, jsonTag, parentSymbol, fieldSymbol, fileUri) ==
    [name |-> name, jsonTag |-> jsonTag, parentSymbol |-> parentSymbol,
     fieldSymbol |-> fieldSymbol, fileUri |-> fileUri]

\* symbol.children.some((child) => child.kind === vscode.SymbolKind.Method)
hasMethods(symbol) ==
    \E c \in DOMAIN symbol.children : symbol.children[c].kind = "Method"

\* symbol.name[0] === symbol.name[0].toUpperCase()
isFirstCharUpperCase(name) == name # <<>> /\ <<name[1]>> = toUpperCase(name[1])

isFieldKind(child) == child.kind \in {"Field", "Property"}

\* utils.ts 1650-1669: the text json:"..." carries up to the first comma or
\* quote; <<>> when the line has no such tag
extractJsonTagFromGoField(child) == child.jsonTag

\* utils.ts 2279-2312
findGoInterfaceAtPosition(uri, position, symbols) ==
    With(firstOf(SelectSeq(symbols, LAMBDA symbol :
                     /\ symbol.kind \in {"Interface", "Struct"}
                     /\ selectionRangeContains(symbol, position))),
         LAMBDA found :
             IF found = null THEN null
             ELSE InterfaceInfo(found.name, found, uri,
                                isFirstCharUpperCase(found.name), hasMethods(found)))

\* utils.ts 2317-2359; a Variable symbol needs a line /^\s*export\s+type\s+/
isExportTypeLine(symbol) ==
    symbol.export /\ symbol.decl \in {"typealias", "enumtype"}

findTsInterfaceAtPosition(uri, position, symbols) ==
    With(firstOf(SelectSeq(symbols, LAMBDA symbol :
                     /\ symbol.kind \in {"Interface", "Variable"}
                     /\ selectionRangeContains(symbol, position)
                     /\ (symbol.kind = "Variable" => isExportTypeLine(symbol)))),
         LAMBDA found :
             IF found = null THEN null
             ELSE InterfaceInfo(found.name, found, uri,
                                isTsLineExported(found), hasMethods(found)))

\* utils.ts 2365-2429
findInterfaceAtUsagePosition(uri, position) ==
    With(firstDefinition(uri, position), LAMBDA definition :
        IF wordAt(uri, position) = <<>> THEN null
        ELSE IF definition = null THEN null
        ELSE IF languageIdOf(definition.uri) = "go"
        THEN findGoInterfaceAtPosition(definition.uri, definition.position,
                                       documentSymbols(definition.uri))
        ELSE IF isTs(languageIdOf(definition.uri))
        THEN findTsInterfaceAtPosition(definition.uri, definition.position,
                                       documentSymbols(definition.uri))
        ELSE null)

\* utils.ts 2242-2274
getInterfaceInfoAtPosition(uri, position) ==
    With(IF languageIdOf(uri) = "go"
         THEN findGoInterfaceAtPosition(uri, position, documentSymbols(uri))
         ELSE IF isTs(languageIdOf(uri))
         THEN findTsInterfaceAtPosition(uri, position, documentSymbols(uri))
         ELSE null,
         LAMBDA interfaceInfo :
             IF interfaceInfo # null THEN interfaceInfo
             ELSE findInterfaceAtUsagePosition(uri, position))

\* utils.ts 1936-1971
findGoInterfaceMethodAtPosition(uri, position, symbols) ==
    With(firstOf(SelectSeq(membersOfEntries(
                     [i \in DOMAIN symbols |->
                         [fileUri |-> uri, index |-> i, symbol |-> symbols[i]]]),
                     LAMBDA m :
                         /\ m.symbol.kind = "Interface"
                         /\ rangeContains(m.symbol, position)
                         /\ m.child.kind = "Method"
                         /\ childContains(m.child, position))),
         LAMBDA found :
             IF found = null THEN null
             ELSE InterfaceMethodInfo(found.child.name, found.symbol, found.child, uri,
                                      isFirstCharUpperCase(found.symbol.name)))

\* utils.ts 1976-2012
findTsInterfaceMethodAtPosition(uri, position, symbols) ==
    With(firstOf(SelectSeq(membersOfEntries(
                     [i \in DOMAIN symbols |->
                         [fileUri |-> uri, index |-> i, symbol |-> symbols[i]]]),
                     LAMBDA m :
                         /\ m.symbol.kind = "Interface"
                         /\ rangeContains(m.symbol, position)
                         /\ m.child.kind = "Method"
                         /\ childContains(m.child, position))),
         LAMBDA found :
             IF found = null THEN null
             ELSE InterfaceMethodInfo(found.child.name, found.symbol, found.child, uri,
                                      isTsLineExported(found.symbol)))

\* utils.ts 2018-2082
findInterfaceMethodAtUsagePosition(uri, position) ==
    With(firstDefinition(uri, position), LAMBDA definition :
        IF wordAt(uri, position) = <<>> THEN null
        ELSE IF definition = null THEN null
        ELSE IF languageIdOf(definition.uri) = "go"
        THEN findGoInterfaceMethodAtPosition(definition.uri, definition.position,
                                             documentSymbols(definition.uri))
        ELSE IF isTs(languageIdOf(definition.uri))
        THEN findTsInterfaceMethodAtPosition(definition.uri, definition.position,
                                             documentSymbols(definition.uri))
        ELSE null)

\* utils.ts 1899-1931
getInterfaceMethodInfoAtPosition(uri, position) ==
    With(IF languageIdOf(uri) = "go"
         THEN findGoInterfaceMethodAtPosition(uri, position, documentSymbols(uri))
         ELSE IF isTs(languageIdOf(uri))
         THEN findTsInterfaceMethodAtPosition(uri, position, documentSymbols(uri))
         ELSE null,
         LAMBDA methodInfo :
             IF methodInfo # null THEN methodInfo
             ELSE findInterfaceMethodAtUsagePosition(uri, position))

\* utils.ts 1565-1604
findGoFieldAtPosition(uri, position, symbols) ==
    With(firstOf(SelectSeq(membersOfEntries(
                     [i \in DOMAIN symbols |->
                         [fileUri |-> uri, index |-> i, symbol |-> symbols[i]]]),
                     LAMBDA m :
                         /\ m.symbol.kind = "Struct"
                         /\ rangeContains(m.symbol, position)
                         /\ isFieldKind(m.child)
                         /\ childContains(m.child, position))),
         LAMBDA found :
             IF found = null THEN null
             ELSE FieldInfo(found.child.name, extractJsonTagFromGoField(found.child),
                            found.symbol, found.child, uri))

\* utils.ts 1609-1644
findTsPropertyAtPosition(uri, position, symbols) ==
    With(firstOf(SelectSeq(membersOfEntries(
                     [i \in DOMAIN symbols |->
                         [fileUri |-> uri, index |-> i, symbol |-> symbols[i]]]),
                     LAMBDA m :
                         /\ m.symbol.kind = "Interface"
                         /\ rangeContains(m.symbol, position)
                         /\ isFieldKind(m.child)
                         /\ childContains(m.child, position))),
         LAMBDA found :
             IF found = null THEN null
             ELSE FieldInfo(found.child.name, <<>>, found.symbol, found.child, uri))

\* utils.ts 1496-1560
findFieldAtUsagePosition(uri, position) ==
    With(firstDefinition(uri, position), LAMBDA definition :
        IF wordAt(uri, position) = <<>> THEN null
        ELSE IF definition = null THEN null
        ELSE IF languageIdOf(definition.uri) = "go"
        THEN findGoFieldAtPosition(definition.uri, definition.position,
                                   documentSymbols(definition.uri))
        ELSE IF isTs(languageIdOf(definition.uri))
        THEN findTsPropertyAtPosition(definition.uri, definition.position,
                                      documentSymbols(definition.uri))
        ELSE null)

\* utils.ts 1458-1490
getFieldInfoAtPosition(uri, position) ==
    With(IF languageIdOf(uri) = "go"
         THEN findGoFieldAtPosition(uri, position, documentSymbols(uri))
         ELSE IF isTs(languageIdOf(uri))
         THEN findTsPropertyAtPosition(uri, position, documentSymbols(uri))
         ELSE null,
         LAMBDA fieldInfo :
             IF fieldInfo # null THEN fieldInfo
             ELSE findFieldAtUsagePosition(uri, position))

\* utils.ts 2482-2541: Go interface (with methods) -> TS interface
findTsInterfaceForGoInterface(goInterfaceInfo) ==
    With(firstOf(SelectSeq(
             symbolsOfFiles(findTsFilesInSameDirectory(goInterfaceInfo.fileUri)),
             LAMBDA e :
                 /\ e.symbol.kind = "Interface"
                 /\ e.symbol.name = goInterfaceInfo.name
                 /\ isTsLineExported(e.symbol)
                 /\ hasMethods(e.symbol))),
         LAMBDA found :
             IF found = null THEN null
             ELSE InterfaceInfo(found.symbol.name, found.symbol, found.fileUri,
                                TRUE, TRUE))

\* utils.ts 2546-2600: TS interface (with methods) -> Go interface
findGoInterfaceForTsInterface(tsInterfaceInfo) ==
    With(firstOf(SelectSeq(
             symbolsOfFiles(findGoFilesInSameDirectory(tsInterfaceInfo.fileUri)),
             LAMBDA e :
                 /\ e.symbol.kind = "Interface"
                 /\ e.symbol.name = tsInterfaceInfo.name
                 /\ isFirstCharUpperCase(e.symbol.name))),
         LAMBDA found :
             IF found = null THEN null
             ELSE InterfaceInfo(found.symbol.name, found.symbol, found.fileUri,
                                TRUE, hasMethods(found.symbol)))

\* utils.ts 2605-2655: TS interface (without methods) -> Go struct
findGoStructForTsInterface(tsInterfaceInfo) ==
    With(firstOf(SelectSeq(
             symbolsOfFiles(findGoFilesInSameDirectory(tsInterfaceInfo.fileUri)),
             LAMBDA e :
                 /\ e.symbol.kind = "Struct"
                 /\ e.symbol.name = tsInterfaceInfo.name
                 /\ isFirstCharUpperCase(e.symbol.name))),
         LAMBDA found :
             IF found = null THEN null
             ELSE InterfaceInfo(found.symbol.name, found.symbol, found.fileUri,
                                TRUE, FALSE))

\* utils.ts 2660-2709: Go interface (without methods) -> TS type alias
findTsTypeAliasForGoInterface(goInterfaceInfo) ==
    With(firstOf(SelectSeq(
             symbolsOfFiles(findTsFilesInSameDirectory(goInterfaceInfo.fileUri)),
             LAMBDA e :
                 /\ e.symbol.kind = "Variable"
                 /\ e.symbol.name = goInterfaceInfo.name
                 /\ isExportTypeLine(e.symbol))),
         LAMBDA found :
             IF found = null THEN null
             ELSE InterfaceInfo(found.symbol.name, found.symbol, found.fileUri,
                                TRUE, FALSE))

\* utils.ts 2714-2771: TS type alias -> Go interface (without methods)
findGoInterfaceForTsTypeAlias(tsTypeAliasInfo) ==
    With(firstOf(SelectSeq(
             symbolsOfFiles(findGoFilesInSameDirectory(tsTypeAliasInfo.fileUri)),
             LAMBDA e :
                 /\ e.symbol.kind = "Interface"
                 /\ e.symbol.name = tsTypeAliasInfo.name
                 /\ isFirstCharUpperCase(e.symbol.name)
                 /\ ~hasMethods(e.symbol))),
         LAMBDA found :
             IF found = null THEN null
             ELSE InterfaceInfo(found.symbol.name, found.symbol, found.fileUri,
                                TRUE, FALSE))

\* utils.ts 2776-2835: Go struct -> TS interface (without methods)
findTsInterfaceForGoStruct(goStructInfo) ==
    With(firstOf(SelectSeq(
             symbolsOfFiles(findTsFilesInSameDirectory(goStructInfo.fileUri)),
             LAMBDA e :
                 /\ e.symbol.kind = "Interface"
                 /\ e.symbol.name = goStructInfo.name
                 /\ isTsLineExported(e.symbol)
                 /\ ~hasMethods(e.symbol))),
         LAMBDA found :
             IF found = null THEN null
             ELSE InterfaceInfo(found.symbol.name, found.symbol, found.fileUri,
                                TRUE, FALSE))

\* utils.ts 2440-2477
findCorrespondingInterface(interfaceInfo, sourceLanguage) ==
    IF sourceLanguage = "go"
    THEN IF interfaceInfo.symbol.kind = "Interface"
         THEN IF interfaceInfo.hasMethods
              THEN findTsInterfaceForGoInterface(interfaceInfo)
              ELSE findTsTypeAliasForGoInterface(interfaceInfo)
         ELSE IF interfaceInfo.symbol.kind = "Struct"
         THEN findTsInterfaceForGoStruct(interfaceInfo)
         ELSE null
    ELSE IF isTs(sourceLanguage)
    THEN IF interfaceInfo.symbol.kind = "Interface"
         THEN IF interfaceInfo.hasMethods
              THEN findGoInterfaceForTsInterface(interfaceInfo)
              ELSE findGoStructForTsInterface(interfaceInfo)
         ELSE IF interfaceInfo.symbol.kind = "Variable"
         THEN findGoInterfaceForTsTypeAlias(interfaceInfo)
         ELSE null
    ELSE null

\* utils.ts 2108-2170: Go interface method -> TS interface method
findTsMethodOfAnyInterface(goMethodInfo) ==
    With(firstOf(SelectSeq(
             membersOfEntries(
                 symbolsOfFiles(findTsFilesInSameDirectory(goMethodInfo.fileUri))),
             LAMBDA m :
                 /\ m.symbol.kind = "Interface"
                 /\ m.child.kind = "Method"
                 /\ m.child.name = lowercaseFirstLetter(goMethodInfo.name))),
         LAMBDA found :
             IF found = null THEN null
             ELSE InterfaceMethodInfo(found.child.name, found.symbol, found.child,
                                      found.fileUri, isTsLineExported(found.symbol)))

findTsMethodForGoMethod(goMethodInfo) ==
    With(firstOf(SelectSeq(
             membersOfEntries(
                 symbolsOfFiles(findTsFilesInSameDirectory(goMethodInfo.fileUri))),
             LAMBDA m :
                 /\ m.symbol.kind = "Interface"
                 /\ includes(<<goMethodInfo.parentSymbol.name>>, m.symbol.name)
                 /\ m.child.kind = "Method"
                 /\ m.child.name = lowercaseFirstLetter(goMethodInfo.name))),
         LAMBDA found :
             IF found = null THEN null
             ELSE InterfaceMethodInfo(found.child.name, found.symbol, found.child,
                                      found.fileUri, isTsLineExported(found.symbol)))

\* utils.ts 2176-2235: TS interface method -> Go interface method
findGoMethodForTsMethod(tsMethodInfo) ==
    With(firstOf(SelectSeq(
             membersOfEntries(
                 symbolsOfFiles(findGoFilesInSameDirectory(tsMethodInfo.fileUri))),
             LAMBDA m :
                 /\ m.symbol.kind = "Interface"
                 /\ includes(<<tsMethodInfo.parentSymbol.name>>, m.symbol.name)
                 /\ m.child.kind = "Method"
                 /\ m.child.name = capitalizeFirstLetter(tsMethodInfo.name))),
         LAMBDA found :
             IF found = null THEN null
             ELSE InterfaceMethodInfo(found.child.name, found.symbol, found.child,
                                      found.fileUri,
                                      isFirstCharUpperCase(found.symbol.name)))

\* utils.ts 2089-2102
findCorrespondingInterfaceMethod(methodInfo, sourceLanguage) ==
    IF sourceLanguage = "go" THEN findTsMethodForGoMethod(methodInfo)
    ELSE IF isTs(sourceLanguage) THEN findGoMethodForTsMethod(methodInfo)
    ELSE null

\* utils.ts 1750-1807: Go struct field -> TS interface property
findTsPropertyByFieldName(goFieldInfo) ==
    With(firstOf(SelectSeq(
             membersOfEntries(
                 symbolsOfFiles(findTsFilesInSameDirectory(goFieldInfo.fileUri))),
             LAMBDA m :
                 /\ m.symbol.kind = "Interface"
                 /\ includes(tsSearchNames(goFieldInfo.parentSymbol.name), m.symbol.name)
                 /\ isFieldKind(m.child)
                 /\ m.child.name = goFieldInfo.name)),
         LAMBDA found :
             IF found = null THEN null
             ELSE FieldInfo(found.child.name, <<>>, found.symbol, found.child,
                            found.fileUri))

findTsPropertyForGoField(goFieldInfo) ==
    With(firstOf(SelectSeq(
             membersOfEntries(
                 symbolsOfFiles(findTsFilesInSameDirectory(goFieldInfo.fileUri))),
             LAMBDA m :
                 /\ m.symbol.kind = "Interface"
                 /\ includes(tsSearchNames(goFieldInfo.parentSymbol.name), m.symbol.name)
                 /\ isFieldKind(m.child)
                 /\ m.child.name = (IF goFieldInfo.jsonTag # <<>>
                                    THEN goFieldInfo.jsonTag ELSE goFieldInfo.name))),
         LAMBDA found :
             IF found = null THEN null
             ELSE FieldInfo(found.child.name, <<>>, found.symbol, found.child,
                            found.fileUri))

\* utils.ts 1813-1892: TS interface property -> Go struct field; in each
\* struct the JSON tags are tried before the field names
fieldsByJsonTag(symbol, propertyName) ==
    SelectSeq(symbol.children, LAMBDA child :
        isFieldKind(child) /\ extractJsonTagFromGoField(child) = propertyName)

fieldsByName(symbol, propertyName) ==
    SelectSeq(symbol.children, LAMBDA child :
        isFieldKind(child) /\ child.name = propertyName)

\* the field names tried before the JSON tags
findGoFieldByNameFirst(tsPropertyInfo) ==
    With(firstOf(SelectSeq(
             symbolsOfFiles(findGoFilesInSameDirectory(tsPropertyInfo.fileUri)),
             LAMBDA e :
                 /\ e.symbol.kind = "Struct"
                 /\ includes(goSearchNames(tsPropertyInfo.parentSymbol.name),
                             e.symbol.name)
                 /\ \/ fieldsByJsonTag(e.symbol, tsPropertyInfo.name) # <<>>
                    \/ fieldsByName(e.symbol, tsPropertyInfo.name) # <<>>)),
         LAMBDA found :
             IF found = null THEN null
             ELSE With(Head(fieldsByName(found.symbol, tsPropertyInfo.name)
                            \o fieldsByJsonTag(found.symbol, tsPropertyInfo.name)),
                       LAMBDA child :
                           FieldInfo(child.name, extractJsonTagFromGoField(child),
                                     found.symbol, child, found.fileUri)))
findGoFieldForTsProperty(tsPropertyInfo) ==
    With(firstOf(SelectSeq(
             symbolsOfFiles(findGoFilesInSameDirectory(tsPropertyInfo.fileUri)),
             LAMBDA e :
                 /\ e.symbol.kind = "Struct"
                 /\ includes(goSearchNames(tsPropertyInfo.parentSymbol.name),
                             e.symbol.name)
                 /\ \/ fieldsByJsonTag(e.symbol, tsPropertyInfo.name) # <<>>
                    \/ fieldsByName(e.symbol, tsPropertyInfo.name) # <<>>)),
         LAMBDA found :
             IF found = null THEN null
             ELSE With(Head(fieldsByJsonTag(found.symbol, tsPropertyInfo.name)
                            \o fieldsByName(found.symbol, tsPropertyInfo.name)),
                       LAMBDA child :
                           FieldInfo(child.name, extractJsonTagFromGoField(child),
                                     found.symbol, child, found.fileUri)))

\* utils.ts 1731-1744
findCorrespondingField(fieldInfo, sourceLanguage) ==
    IF sourceLanguage = "go" THEN findTsPropertyForGoField(fieldInfo)
    ELSE IF isTs(sourceLanguage) THEN findGoFieldForTsProperty(fieldInfo)
    ELSE null

(***************************************************************************)
(* The two finders.  A finder returns locations; the model keeps with them *)
(* the pathway that answered and the counterparts it selected             *)
(* ([fileUri, symbol, line]: file, top-level symbol and line of the name). *)
(***************************************************************************)
Counterpart(fileUri, symbol, line) ==
    [fileUri |-> fileUri, symbol |-> symbol, line |-> line]

Found(pathway, counterparts, locations) ==
    [pathway |-> pathway, counterparts |-> counterparts, locations |-> locations,
     threw |-> FALSE]

\* the finder is left by an exception no try block of it encloses
Thrown(pathway, counterparts) ==
    [pathway |-> pathway, counterparts |-> counterparts, locations |-> <<>>,
     threw |-> TRUE]

\* reference/finder.ts 27-35
RECURSIVE getUniqueLocations(_)
getUniqueLocations(locations) ==
    IF locations = <<>> THEN <<>>
    ELSE LET front == SubSeq(locations, 1, Len(locations) - 1)
             last == locations[Len(locations)]
         IN IF includes(front, last) THEN getUniqueLocations(front)
            ELSE Append(getUniqueLocations(front), last)

\* allLocations.push(...references) for each selected symbol in turn
\* try { executeReferenceProvider } catch { console.error }: a call that
\* throws contributes no reference
referencesCaught(fileUri, position) ==
    IF fileUri \in ws.failing.references THEN <<>>
    ELSE executeReferenceProvider(fileUri, position)

\* try { executeImplementationProvider } catch { console.error }
implementationsCaught(fileUri, position) ==
    IF fileUri \in ws.failing.implementations THEN <<>>
    ELSE executeImplementationProvider(fileUri, position)

RECURSIVE referencesOfAll(_)
referencesOfAll(entries) ==
    IF entries = <<>> THEN <<>>
    ELSE referencesCaught(Head(entries).fileUri,
                          selectionRangeStart(Head(entries).symbol))
         \o referencesOfAll(Tail(entries))

counterpartsOf(entries) ==
    [i \in DOMAIN entries |->
        Counterpart(entries[i].fileUri, entries[i].symbol, entries[i].symbol.range[1])]

\* candidates.filter((c) => c.score === bestScore)
bestCandidates(candidates) ==
    SelectSeq(candidates, LAMBDA c : c.score = candidates[1].score)

\* reference/finder.ts 169-218
findTsConstReferencesByName(tsFiles, constName) ==
    With(SelectSeq(symbolsOfFiles(tsFiles), LAMBDA e :
             /\ e.symbol.kind \in {"Constant", "Variable"}
             /\ e.symbol.name = constName
             /\ isFirstCharUpperCase(e.symbol.name)),
         LAMBDA hits : Found("enumConst", counterpartsOf(hits),
                             getUniqueLocations(referencesOfAll(hits))))

findTsEnumConstReferences(tsFiles, constName) ==
    With(SelectSeq(symbolsOfFiles(tsFiles), LAMBDA e :
             /\ e.symbol.kind \in {"Constant", "Variable"}
             /\ e.symbol.name = constName
             /\ isFirstCharUpperCase(e.symbol.name)
             /\ isTsEnumConst(e.symbol)),
         LAMBDA hits : Found("enumConst", counterpartsOf(hits),
                             getUniqueLocations(referencesOfAll(hits))))

\* reference/finder.ts 223-271
findGoEnumConstReferences(goFiles, constName) ==
    With(SelectSeq(symbolsOfFiles(goFiles), LAMBDA e :
             /\ e.symbol.kind = "Constant"
             /\ e.symbol.name = constName
             /\ isFirstCharUpperCase(e.symbol.name)
             /\ isGoEnumConst(e.symbol)),
         LAMBDA hits : Found("enumConst", counterpartsOf(hits),
                             getUniqueLocations(referencesOfAll(hits))))

\* reference/finder.ts 276-331
findGoEnumTypeReferences(goFiles, typeName) ==
    With(SelectSeq(symbolsOfFiles(goFiles), LAMBDA e :
             /\ e.symbol.kind \in {"Class", "Interface"}
             /\ e.symbol.name = typeName
             /\ isFirstCharUpperCase(e.symbol.name)
             /\ isGoEnumTypeLine(e.symbol)),
         LAMBDA hits : Found("enumType", counterpartsOf(hits),
                             getUniqueLocations(referencesOfAll(hits))))

\* reference/finder.ts 336-399: the first matching type definition of each file
findTsEnumTypeReferences(tsFiles, typeName) ==
    With(SelectSeq(symbolsOfFiles(tsFiles), LAMBDA e :
             e.symbol.name = typeName /\ isTsEnumTypeLine(e.symbol)),
         LAMBDA definitions :
    With(SelectSeq(definitions, LAMBDA e :
             \A j \in DOMAIN definitions :
                 definitions[j].fileUri = e.fileUri => definitions[j].index >= e.index),
         LAMBDA hits : Found("enumType", counterpartsOf(hits),
                             getUniqueLocations(referencesOfAll(hits)))))

\* reference/finder.ts 105-131
findEnumConstReferences(constantInfo, sourceLanguage) ==
    IF sourceLanguage = "go"
    THEN findTsEnumConstReferences(findTsFilesInSameDirectory(constantInfo.fileUri),
                                   constantInfo.name)
    ELSE IF isTs(sourceLanguage)
    THEN findGoEnumConstReferences(findGoFilesInSameDirectory(constantInfo.fileUri),
                                   constantInfo.name)
    ELSE Found("enumConst", <<>>, <<>>)

\* reference/finder.ts 138-164
findEnumTypeReferences(typeInfo, sourceLanguage) ==
    IF sourceLanguage = "go"
    THEN findTsEnumTypeReferences(findTsFilesInSameDirectory(typeInfo.fileUri),
                                  typeInfo.name)
    ELSE IF isTs(sourceLanguage)
    THEN findGoEnumTypeReferences(findGoFilesInSameDirectory(typeInfo.fileUri),
                                  typeInfo.name)
    ELSE Found("enumType", <<>>, <<>>)

\* reference/finder.ts 406-430
findFieldReferences(fieldInfo, sourceLanguage) ==
    With(findCorrespondingField(fieldInfo, sourceLanguage), LAMBDA correspondingField :
        IF correspondingField = null THEN Found("field", <<>>, <<>>)
        ELSE Found("field",
                   <<Counterpart(correspondingField.fileUri,
                                 correspondingField.parentSymbol,
                                 correspondingField.fieldSymbol.line)>>,
                   referencesCaught(correspondingField.fileUri,
                       childStart(correspondingField.fieldSymbol))))

\* reference/finder.ts 438-465
findInterfaceReferences(interfaceInfo, sourceLanguage) ==
    With(findCorrespondingInterface(interfaceInfo, sourceLanguage),
         LAMBDA correspondingInterface :
        IF correspondingInterface = null THEN Found("interface", <<>>, <<>>)
        ELSE Found("interface",
                   <<Counterpart(correspondingInterface.fileUri,
                                 correspondingInterface.symbol,
                                 correspondingInterface.symbol.range[1])>>,
                   referencesCaught(correspondingInterface.fileUri,
                       selectionRangeStart(correspondingInterface.symbol))))

\* reference/finder.ts 472-499
findInterfaceMethodReferences(methodInfo, sourceLanguage) ==
    With(findCorrespondingInterfaceMethod(methodInfo, sourceLanguage),
         LAMBDA correspondingMethod :
        IF correspondingMethod = null THEN Found("method", <<>>, <<>>)
        ELSE Found("method",
                   <<Counterpart(correspondingMethod.fileUri,
                                 correspondingMethod.parentSymbol,
                                 correspondingMethod.methodSymbol.line)>>,
                   referencesCaught(correspondingMethod.fileUri,
                       childStart(correspondingMethod.methodSymbol))))

\* reference/finder.ts 584-632
findSymbolReferencesInGoFiles(goFiles, symbolNames, isSourceExported, symbolKind) ==
    With(findMatchingSymbolsInGoFiles(goFiles, symbolNames, isSourceExported,
                                      symbolKind, isStrictExportEnabled),
         LAMBDA candidates :
        IF candidates = <<>> THEN Found("symbol", <<>>, <<>>)
        ELSE With(bestCandidates(candidates), LAMBDA best :
                  Found("symbol", counterpartsOf(best),
                        getUniqueLocations(referencesOfAll(best)))))

\* reference/finder.ts 637-685
findSymbolReferencesInTsFiles(tsFiles, symbolNames, isSourceExported, symbolKind) ==
    With(findMatchingSymbolsInTsFiles(tsFiles, symbolNames, isSourceExported,
                                      symbolKind, isStrictExportEnabled),
         LAMBDA candidates :
        IF candidates = <<>> THEN Found("symbol", <<>>, <<>>)
        ELSE With(bestCandidates(candidates), LAMBDA best :
                  Found("symbol", counterpartsOf(best),
                        getUniqueLocations(referencesOfAll(best)))))

\* reference/finder.ts 538-557
findGoReferences(tsFileUri, symbolName, isSourceExported, symbolKind) ==
    findSymbolReferencesInGoFiles(findGoFilesInSameDirectory(tsFileUri),
                                  goSearchNames(symbolName), isSourceExported,
                                  symbolKind)

\* reference/finder.ts 562-579
findTsReferences(goFileUri, symbolName, isSourceExported, symbolKind) ==
    findSymbolReferencesInTsFiles(findTsFilesInSameDirectory(goFileUri),
                                  tsSearchNames(symbolName), isSourceExported,
                                  symbolKind)

\* reference/finder.ts 510-533
findSymbolReferences(symbolInfo, sourceLanguage) ==
    IF isTs(sourceLanguage)
    THEN findGoReferences(symbolInfo.location.uri, symbolInfo.name,
                          symbolInfo.isExported, symbolInfo.kind)
    ELSE IF sourceLanguage = "go"
    THEN findTsReferences(symbolInfo.location.uri, symbolInfo.name,
                          symbolInfo.isExported, symbolInfo.kind)
    ELSE Found("symbol", <<>>, <<>>)

\* the generic symbol category consulted before the five special ones
findReferencesSymbolFirst(uri, position) ==
    With(getSymbolInfoAtPosition(uri, position), LAMBDA symbolInfo :
    IF symbolInfo # null
    THEN findSymbolReferences(symbolInfo, languageIdOf(uri))
    ELSE
    With(getEnumTypeInfoAtPosition(uri, position), LAMBDA enumTypeInfo :
    IF enumTypeInfo # null
    THEN findEnumTypeReferences(enumTypeInfo, languageIdOf(uri))
    ELSE
    With(getEnumConstInfoAtPosition(uri, position), LAMBDA constConstInfo :
    IF constConstInfo # null
    THEN findEnumConstReferences(constConstInfo, languageIdOf(uri))
    ELSE
    With(getInterfaceInfoAtPosition(uri, position), LAMBDA interfaceInfo :
    IF interfaceInfo # null
    THEN findInterfaceReferences(interfaceInfo, languageIdOf(uri))
    ELSE
    With(getInterfaceMethodInfoAtPosition(uri, position), LAMBDA methodInfo :
    IF methodInfo # null
    THEN findInterfaceMethodReferences(methodInfo, languageIdOf(uri))
    ELSE
    With(getFieldInfoAtPosition(uri, position), LAMBDA fieldInfo :
    IF fieldInfo # null
    THEN findFieldReferences(fieldInfo, languageIdOf(uri))
    ELSE Found("none", <<>>, <<>>)))))))
\* reference/finder.ts 41-98
findReferences(uri, position) ==
    With(getEnumTypeInfoAtPosition(uri, position), LAMBDA enumTypeInfo :
    IF enumTypeInfo # null
    THEN findEnumTypeReferences(enumTypeInfo, languageIdOf(uri))
    ELSE
    With(getEnumConstInfoAtPosition(uri, position), LAMBDA constConstInfo :
    IF constConstInfo # null
    THEN findEnumConstReferences(constConstInfo, languageIdOf(uri))
    ELSE
    With(getInterfaceInfoAtPosition(uri, position), LAMBDA interfaceInfo :
    IF interfaceInfo # null
    THEN findInterfaceReferences(interfaceInfo, languageIdOf(uri))
    ELSE
    With(getInterfaceMethodInfoAtPosition(uri, position), LAMBDA methodInfo :
    IF methodInfo # null
    THEN findInterfaceMethodReferences(methodInfo, languageIdOf(uri))
    ELSE
    With(getFieldInfoAtPosition(uri, position), LAMBDA fieldInfo :
    IF fieldInfo # null
    THEN findFieldReferences(fieldInfo, languageIdOf(uri))
    ELSE
    With(getSymbolInfoAtPosition(uri, position), LAMBDA symbolInfo :
    IF symbolInfo # null
    THEN findSymbolReferences(symbolInfo, languageIdOf(uri))
    ELSE Found("none", <<>>, <<>>)))))))

\* new vscode.Location(c.fileUri, c.symbol.selectionRange.start)
declarationLocations(entries) ==
    [i \in DOMAIN entries |->
        Location(entries[i].fileUri, selectionRangeStart(entries[i].symbol))]

\* implementation/finder.ts 194-223
findSymbolDeclarationInGoFiles(goFiles, symbolNames, isSourceExported, symbolKind) ==
    With(findMatchingSymbolsInGoFiles(goFiles, symbolNames, isSourceExported,
                                      symbolKind, isStrictExportEnabled),
         LAMBDA symbolCandidates :
        IF symbolCandidates = <<>> THEN Found("symbol", <<>>, <<>>)
        ELSE With(bestCandidates(symbolCandidates), LAMBDA best :
                  Found("symbol", counterpartsOf(best), declarationLocations(best))))

\* implementation/finder.ts 229-258
findSymbolDeclarationInTsFiles(tsFiles, symbolNames, isSourceExported, symbolKind) ==
    With(findMatchingSymbolsInTsFiles(tsFiles, symbolNames, isSourceExported,
                                      symbolKind, isStrictExportEnabled),
         LAMBDA symbolCandidates :
        IF symbolCandidates = <<>> THEN Found("symbol", <<>>, <<>>)
        ELSE With(bestCandidates(symbolCandidates), LAMBDA best :
                  Found("symbol", counterpartsOf(best), declarationLocations(best))))

\* implementation/finder.ts 147-166
findGoDeclaration(tsFileUri, symbolName, isSourceExported, symbolKind) ==
    findSymbolDeclarationInGoFiles(findGoFilesInSameDirectory(tsFileUri),
                                   goSearchNames(symbolName), isSourceExported,
                                   symbolKind)

\* implementation/finder.ts 171-188
findTsDeclaration(goFileUri, symbolName, isSourceExported, symbolKind) ==
    findSymbolDeclarationInTsFiles(findTsFilesInSameDirectory(goFileUri),
                                   tsSearchNames(symbolName), isSourceExported,
                                   symbolKind)

\* implementation/finder.ts 265-351
findInterfaceImplementations(interfaceInfo, sourceLanguage) ==
    With(findCorrespondingInterface(interfaceInfo, sourceLanguage),
         LAMBDA correspondingInterface :
        IF correspondingInterface = null THEN Found("interface", <<>>, <<>>)
        ELSE With(Location(correspondingInterface.fileUri,
                           selectionRangeStart(correspondingInterface.symbol)),
                  LAMBDA declaration :
                      Found("interface",
                            <<Counterpart(correspondingInterface.fileUri,
                                          correspondingInterface.symbol,
                                          correspondingInterface.symbol.range[1])>>,
                            <<declaration>>
                            \o implementationsCaught(declaration.uri,
                                   rangeStart(declaration)))))

\* for (const tsInterfaceLoc of implementations) ... push(...interfaceImpls)
RECURSIVE implementationsOfAll(_)
implementationsOfAll(locations) ==
    IF locations = <<>> THEN <<>>
    ELSE executeImplementationProvider(Head(locations).uri, rangeStart(Head(locations)))
         \o implementationsOfAll(Tail(locations))

\* implementation/finder.ts 28-142; knownDeclaration is null when absent
findImplementations(uri, position, knownDeclaration) ==
    With(getInterfaceInfoAtPosition(uri, position), LAMBDA interfaceInfo :
    IF interfaceInfo # null /\ interfaceInfo.hasMethods
    THEN findInterfaceImplementations(interfaceInfo, languageIdOf(uri))
    ELSE
    With(IF knownDeclaration # null THEN knownDeclaration.name
         ELSE getSymbolNameAtPosition(uri, position),
         LAMBDA symbolName :
    IF symbolName = <<>> THEN Found("none", <<>>, <<>>)
    ELSE
    With(IF knownDeclaration # null
         THEN DeclarationInfo(knownDeclaration.location, knownDeclaration.kind)
         ELSE findDeclarationLocationViaReferences(uri, position, symbolName),
         LAMBDA declarationInfo :
    IF declarationInfo = null THEN Found("none", <<>>, <<>>)
    ELSE
    With(isSymbolExported(declarationInfo.location.uri,
                          rangeStart(declarationInfo.location),
                          symbolName, languageIdOf(uri), declarationInfo.kind),
         LAMBDA isExported :
    IF declarationInfo.kind \in {"Struct", "Interface"} /\ ~isExported
    THEN Found("none", <<>>, <<>>)
    ELSE IF isTs(languageIdOf(uri))
    THEN findGoDeclaration(declarationInfo.location.uri, symbolName, isExported,
                           declarationInfo.kind)
    ELSE IF languageIdOf(uri) = "go"
    THEN With(findTsDeclaration(declarationInfo.location.uri, symbolName,
                                isExported, declarationInfo.kind),
              LAMBDA tsDeclaration :
                  IF declarationInfo.kind = "Struct" /\ tsDeclaration.locations # <<>>
                  THEN IF \E i \in DOMAIN tsDeclaration.locations :
                             tsDeclaration.locations[i].uri
                                 \in ws.failing.implementations
                       THEN Thrown("symbol", tsDeclaration.counterparts)
                       ELSE Found("symbol", tsDeclaration.counterparts,
                                  tsDeclaration.locations
                                  \o implementationsOfAll(tsDeclaration.locations))
                  ELSE tsDeclaration)
    ELSE Found("none", <<>>, <<>>)))))

KnownDeclaration(location, kind, name) ==
    [location |-> location, kind |-> kind, name |-> name]

\* what provideImplementation collects before it asks the finder: the
\* locations of the request's own language and the declaration it found
Collected(own, knownDeclaration) == [own |-> own, knownDeclaration |-> knownDeclaration]

\* implementation provider, provideImplementation, Go branch
\* (implementation/finder.ts 401-484)
collectGoDeclaration(uri, position) ==
    With(getSymbolNameAtPosition(uri, position), LAMBDA symbolName :
    IF symbolName = <<>> THEN Collected(<<>>, null)
    ELSE
    With(findSymbolAtCursor(documentSymbols(uri), position), LAMBDA currentSymbol :
    IF /\ currentSymbol # null
       /\ currentSymbol.kind \in DeclarationKinds
       /\ currentSymbol.name = symbolName
    THEN Collected(<<Location(uri, currentSymbol.start)>>,
                   KnownDeclaration(Location(uri, currentSymbol.start),
                                    currentSymbol.kind, symbolName))
    ELSE
    With(executeDefinitionProvider(uri, position), LAMBDA definitions :
    IF definitions = <<>> THEN Collected(<<>>, null)
    ELSE
    With(findSymbolAtCursor(documentSymbols(definitions[1].uri),
                            rangeStart(definitions[1])),
         LAMBDA defSymbol :
    IF defSymbol # null /\ defSymbol.kind \in DeclarationKinds
    THEN Collected(<<Location(definitions[1].uri, defSymbol.start)>>,
                   KnownDeclaration(Location(definitions[1].uri, defSymbol.start),
                                    defSymbol.kind, defSymbol.name))
    ELSE Collected(<<definitions[1]>>, null)))))

\* implementation provider, provideImplementation, the try block
\* (implementation/finder.ts 392-512): own-language locations first, then
\* the locations of findImplementations
provideImplementation(uri, position) ==
    With(IF languageIdOf(uri) = "go" THEN collectGoDeclaration(uri, position)
         ELSE Collected(executeImplementationProvider(uri, position), null),
         LAMBDA collected :
    With(findImplementations(uri, position, collected.knownDeclaration),
         LAMBDA crossLanguageImplementations :
        [own |-> collected.own,
         cross |-> crossLanguageImplementations,
         allImplementations |->
             IF crossLanguageImplementations.threw THEN <<>>
             ELSE collected.own \o crossLanguageImplementations.locations]))

(***************************************************************************)
(* The workspaces the engine is run against.                               *)
(***************************************************************************)
NamePool == {<<"a", "b">>, <<"A", "b">>, <<"_", "b">>}
RequestNames == {<<"a", "b">>, <<"A", "b">>}

FieldBa == Member(<<"B", "a">>, "Field", 2, <<"b", "a">>)
PropertyBa == Member(<<"b", "a">>, "Property", 2, <<>>)
MethodGoBa == Member(<<"B", "a">>, "Method", 2, <<>>)
MethodTsBa == Member(<<"b", "a">>, "Method", 2, <<>>)

\* func n() / type n struct / type n interface, at lines first..first+2
GoFunction(n, first) == Symbol(n, "Function", "func", FALSE, first, first + 2, <<>>)
GoStruct(n, first) ==
    Symbol(n, "Struct", "struct", FALSE, first, first + 2,
           <<[FieldBa EXCEPT !.line = first + 1]>>)
GoInterface(n, first) ==
    Symbol(n, "Interface", "interface", FALSE, first, first + 2,
           <<[MethodGoBa EXCEPT !.line = first + 1]>>)

\* [export] function n() / [export] interface n { ba } / { ba() }
TsFunction(n, export, first) ==
    Symbol(n, "Function", "function", export, first, first + 2, <<>>)
TsInterface(n, export, first) ==
    Symbol(n, "Interface", "interface", export, first, first + 2,
           <<[PropertyBa EXCEPT !.line = first + 1]>>)
TsInterfaceWithMethods(n, export, first) ==
    Symbol(n, "Interface", "interface", export, first, first + 2,
           <<[MethodTsBa EXCEPT !.line = first + 1]>>)

GoScanPool ==
    {<<>>} \cup {<<GoFunction(n, 1)>> : n \in NamePool}
           \cup {<<GoStruct(n, 1)>> : n \in NamePool}
           \cup {<<GoInterface(n, 1)>> : n \in NamePool}

TsScanPool ==
    {<<>>} \cup {<<TsFunction(n, e, 1)>> : n \in NamePool, e \in BOOLEAN}
           \cup {<<TsInterface(n, e, 1)>> : n \in NamePool, e \in BOOLEAN}

\* two sibling files of one language in api/, one file in web/ holding a
\* function and a type of an accepted name
Workspace(files, symbols, usages, open, declarationFirst, definitionLinks) ==
    [files |-> files, symbols |-> symbols, usages |-> usages, open |-> open,
     declarationFirst |-> declarationFirst, definitionLinks |-> definitionLinks,
     failing |-> NoFailure]

ScanWorkspacesOf(goPool, tsPool) ==
    {Workspace(<<Uri("api", "c", "go"), Uri("api", "d", "go"), Uri("web", "c", "go")>>,
               (Uri("api", "c", "go") :> c @@ Uri("api", "d", "go") :> d
                @@ Uri("web", "c", "go") :>
                     <<GoFunction(<<"A", "b">>, 1), GoStruct(<<"A", "b">>, 5)>>),
               <<>>, <<>>, TRUE, FALSE)
        : c \in goPool, d \in goPool}
    \cup
    {Workspace(<<Uri("api", "c", "ts"), Uri("api", "d", "tsx"), Uri("web", "c", "ts")>>,
               (Uri("api", "c", "ts") :> c @@ Uri("api", "d", "tsx") :> d
                @@ Uri("web", "c", "ts") :>
                     <<TsFunction(<<"a", "b">>, TRUE, 1),
                       TsInterface(<<"A", "b">>, TRUE, 5)>>),
               <<>>, <<>>, TRUE, FALSE)
        : c \in tsPool, d \in tsPool}

ScanWorkspaces == ScanWorkspacesOf(GoScanPool, TsScanPool)

\* the workspaces whose declarations carry the two names of a request
SelectWorkspaces ==
    ScanWorkspacesOf({c \in GoScanPool : \A i \in DOMAIN c : c[i].name \in RequestNames},
                     {c \in TsScanPool : \A i \in DOMAIN c : c[i].name \in RequestNames})

ScanKinds == {"Function", "Struct", "Interface", "Variable"}

(***************************************************************************)
(* findGoReferences / findGoDeclaration (to = "go") and findTsReferences / *)
(* findTsDeclaration (to = "ts") up to the scan: the sibling files of the  *)
(* source file are listed, the accepted names are derived and              *)
(* findMatchingSymbolsIn...Files is applied with the strict setting.       *)
(***************************************************************************)
Scan ==
    \E to \in {"go", "ts"}, symbolName \in NamePool,
       isSourceExported \in BOOLEAN, symbolKind \in ScanKinds :
        LET fileUri == Uri("api", "s", IF to = "go" THEN "ts" ELSE "go")
            files == IF to = "go" THEN findGoFilesInSameDirectory(fileUri)
                     ELSE findTsFilesInSameDirectory(fileUri)
            searchNames == IF to = "go" THEN goSearchNames(symbolName)
                           ELSE tsSearchNames(symbolName)
        IN /\ req' = [op |-> "scan", to |-> to, fileUri |-> fileUri,
                      symbolName |-> symbolName,
                      isSourceExported |-> isSourceExported,
                      symbolKind |-> symbolKind]
           /\ res' = [op |-> "scan", files |-> files, searchNames |-> searchNames,
                      strict |-> isStrictExportEnabled,
                      candidates |->
                         IF to = "go"
                         THEN findMatchingSymbolsInGoFiles(files, searchNames,
                                  isSourceExported, symbolKind, isStrictExportEnabled)
                         ELSE findMatchingSymbolsInTsFiles(files, searchNames,
                                  isSourceExported, symbolKind, isStrictExportEnabled)]
           /\ UNCHANGED <<ws, strictExport, providerVars>>

MatchInit ==
    /\ refIsProcessingGlobal = FALSE
    /\ implIsProcessingGlobal = FALSE
    /\ enable = TRUE
    /\ acts = <<>>
    /\ ws \in ScanWorkspaces
    /\ strictExport \in BOOLEAN
    /\ req = NoRequest
    /\ res = NoResult

MatchNext ==
    \/ Scan

MatchSpec == MatchInit /\ [][MatchNext]_vars

(***************************************************************************)
(* The scan over files that declare functions inside other declarations    *)
(* and methods: a function listed beside the function whose range holds    *)
(* it, a function listed as child of a function, a function listed beside  *)
(* a type one of whose children holds it, a method listed on its own and   *)
(* a method listed as child of a class.                                    *)
(***************************************************************************)
\* func / function _b() { ... } over the lines first..first+8
OuterFunction(decl, export, first, children) ==
    Symbol(<<"_", "b">>, "Function", decl, export, first, first + 8, children)
\* a child symbol n of the kind given over the lines line..line+span
Inner(n, kind, line, span) == [Member(n, kind, line, <<>>) EXCEPT !.span = span]

GoKindPool ==
    {<<>>,
     <<GoFunction(<<"a", "b">>, 1)>>,
     <<OuterFunction("func", FALSE, 1, <<>>), GoFunction(<<"a", "b">>, 2)>>,
     <<OuterFunction("func", FALSE, 1, <<Inner(<<"a", "b">>, "Function", 2, 2)>>)>>,
     <<Symbol(<<"A", "b">>, "Struct", "struct", FALSE, 1, 9,
              <<Inner(<<"_", "b">>, "Function", 2, 3)>>),
       GoFunction(<<"a", "b">>, 2)>>,
     <<Symbol(<<"a", "b">>, "Method", "method", FALSE, 1, 3, <<>>)>>,
     <<GoStruct(<<"A", "b">>, 1)>>,
     <<GoInterface(<<"A", "b">>, 1)>>}

TsKindPool ==
    {<<>>,
     <<TsFunction(<<"a", "b">>, TRUE, 1)>>,
     <<OuterFunction("function", TRUE, 1, <<>>), TsFunction(<<"a", "b">>, TRUE, 2)>>,
     <<OuterFunction("function", TRUE, 1, <<Inner(<<"a", "b">>, "Function", 2, 2)>>)>>,
     <<Symbol(<<"A", "b">>, "Class", "class", TRUE, 1, 9,
              <<Inner(<<"_", "b">>, "Function", 2, 3)>>),
       TsFunction(<<"a", "b">>, TRUE, 2)>>,
     <<Symbol(<<"A", "b">>, "Class", "class", TRUE, 1, 9,
              <<Inner(<<"a", "b">>, "Method", 2, 2)>>)>>,
     <<TsInterface(<<"A", "b">>, TRUE, 1)>>,
     <<TsInterfaceWithMethods(<<"A", "b">>, TRUE, 1)>>}

KindWorkspaces == ScanWorkspacesOf(GoKindPool, TsKindPool)

KindInit ==
    /\ refIsProcessingGlobal = FALSE
    /\ implIsProcessingGlobal = FALSE
    /\ enable = TRUE
    /\ acts = <<>>
    /\ ws \in KindWorkspaces
    /\ strictExport \in BOOLEAN
    /\ req = NoRequest
    /\ res = NoResult

KindSpec == KindInit /\ [][MatchNext]_vars

(***************************************************************************)
(* The scored finders over the scan workspaces: findGoReferences /         *)
(* findTsReferences (reference/finder.ts 538-685) and findGoDeclaration /  *)
(* findTsDeclaration (implementation/finder.ts 147-258).  The answer       *)
(* keeps the sorted candidates of the scan next to what the finder returns.*)
(***************************************************************************)
Selected(op, to, fileUri, symbolName, isSourceExported, symbolKind, found) ==
    [op |-> op,
     candidates |->
        IF to = "go"
        THEN findMatchingSymbolsInGoFiles(findGoFilesInSameDirectory(fileUri),
                 goSearchNames(symbolName), isSourceExported, symbolKind,
                 isStrictExportEnabled)
        ELSE findMatchingSymbolsInTsFiles(findTsFilesInSameDirectory(fileUri),
                 tsSearchNames(symbolName), isSourceExported, symbolKind,
                 isStrictExportEnabled),
     counterparts |-> found.counterparts,
     locations |-> found.locations]

SelectReferences ==
    \E to \in {"go", "ts"}, symbolName \in RequestNames,
       isSourceExported \in BOOLEAN, symbolKind \in ScanKinds :
        /\ req' = [op |-> "selectReferences", to |-> to,
                   fileUri |-> Uri("api", "s", IF to = "go" THEN "ts" ELSE "go"),
                   symbolName |-> symbolName,
                   isSourceExported |-> isSourceExported, symbolKind |-> symbolKind]
        /\ res' = Selected("selectReferences", to, req'.fileUri, symbolName,
                           isSourceExported, symbolKind,
                           IF to = "go"
                           THEN findGoReferences(req'.fileUri, symbolName,
                                                 isSourceExported, symbolKind)
                           ELSE findTsReferences(req'.fileUri, symbolName,
                                                 isSourceExported, symbolKind))
        /\ UNCHANGED <<ws, strictExport, providerVars>>

SelectDeclarations ==
    \E to \in {"go", "ts"}, symbolName \in RequestNames,
       isSourceExported \in BOOLEAN, symbolKind \in ScanKinds :
        /\ req' = [op |-> "selectDeclarations", to |-> to,
                   fileUri |-> Uri("api", "s", IF to = "go" THEN "ts" ELSE "go"),
                   symbolName |-> symbolName,
                   isSourceExported |-> isSourceExported, symbolKind |-> symbolKind]
        /\ res' = Selected("selectDeclarations", to, req'.fileUri, symbolName,
                           isSourceExported, symbolKind,
                           IF to = "go"
                           THEN findGoDeclaration(req'.fileUri, symbolName,
                                                  isSourceExported, symbolKind)
                           ELSE findTsDeclaration(req'.fileUri, symbolName,
                                                  isSourceExported, symbolKind))
        /\ UNCHANGED <<ws, strictExport, providerVars>>

SelectInit ==
    /\ refIsProcessingGlobal = FALSE
    /\ implIsProcessingGlobal = FALSE
    /\ enable = TRUE
    /\ acts = <<>>
    /\ ws \in SelectWorkspaces
    /\ strictExport \in BOOLEAN
    /\ req = NoRequest
    /\ res = NoResult

SelectNext ==
    \/ SelectReferences
    \/ SelectDeclarations

SelectSpec == SelectInit /\ [][SelectNext]_vars

(***************************************************************************)
(* The workspaces of the requests: a source file api/s with one            *)
(* declaration, a file web/u of the same language that uses it, a file     *)
(* api/c of the other language (the sibling), a file web/c of the other    *)
(* language in another directory, and web/v that uses what they declare.   *)
(***************************************************************************)

\* func (r T) n(): a method, listed outside the struct
GoMethod(n, first) == Symbol(n, "Method", "method", FALSE, first, first + 2, <<>>)
\* type n interface {}
GoEmptyInterface(n, first) ==
    Symbol(n, "Interface", "interface", FALSE, first, first + 2, <<>>)
\* const AB A = "x" and type A = string
GoEnumConst(first) == Symbol(<<"A", "B">>, "Constant", "enumconst", FALSE, first, first, <<>>)
GoEnumType(first) == Symbol(<<"A">>, "Class", "enumtype", FALSE, first, first, <<>>)

\* [export] const n = ..., [export] type n = {...}
TsConst(n, export, first) == Symbol(n, "Variable", "const", export, first, first, <<>>)
TsTypeAlias(n, export, first) ==
    Symbol(n, "Variable", "typealias", export, first, first + 2, <<>>)
\* export const AB = "x" and export type A = typeof AB | ...
TsEnumConst(first) == Symbol(<<"A", "B">>, "Constant", "enumconst", TRUE, first, first, <<>>)
TsEnumType(first) == Symbol(<<"A">>, "Variable", "enumtype", TRUE, first, first, <<>>)

GoSymbolPool ==
    {GoFunction(n, 1) : n \in RequestNames}
    \cup {GoStruct(n, 1) : n \in RequestNames}
    \cup {GoInterface(n, 1) : n \in RequestNames}
    \cup {GoMethod(n, 1) : n \in RequestNames}
    \cup {GoEmptyInterface(<<"A", "b">>, 1), GoEnumConst(1), GoEnumType(1)}

TsSymbolPool ==
    {TsFunction(n, e, 1) : n \in RequestNames, e \in BOOLEAN}
    \cup {TsInterface(n, e, 1) : n \in RequestNames, e \in BOOLEAN}
    \cup {TsInterfaceWithMethods(n, e, 1) : n \in RequestNames, e \in BOOLEAN}
    \cup {TsConst(<<"a", "b">>, e, 1) : e \in BOOLEAN}
    \cup {TsTypeAlias(<<"A", "b">>, e, 1) : e \in BOOLEAN}
    \cup {TsEnumConst(1), TsEnumType(1)}

\* what the file web/c of the other language declares: a function and a type
GoElsewhere == <<GoFunction(<<"a", "b">>, 1), GoStruct(<<"A", "b">>, 5)>>
TsElsewhere == <<TsFunction(<<"a", "b">>, TRUE, 1), TsInterface(<<"A", "b">>, TRUE, 5)>>

Usage(uri, line, name, target, role) ==
    [uri |-> uri, line |-> line, name |-> name, target |-> target, role |-> role]

\* one use of each name the symbols of declFile declare, in useFile from
\* line `from` on, and one implementing type below each interface
RECURSIVE usagesOf(_, _, _, _)
usagesOf(symbols, declFile, useFile, from) ==
    IF symbols = <<>> THEN <<>>
    ELSE LET symbol == Head(symbols)
             ofName == Usage(useFile, from, symbol.name,
                             Location(declFile, selectionRangeStart(symbol)), "use")
             ofMembers == [c \in 1..Len(symbol.children) |->
                             Usage(useFile, from + c, symbol.children[c].name,
                                   Location(declFile, childStart(symbol.children[c])),
                                   "use")]
             ofImplementer ==
                 IF symbol.kind = "Interface"
                 THEN <<Usage(declFile, symbol.range[2] + 6, symbol.name,
                              Location(declFile, selectionRangeStart(symbol)), "impl")>>
                 ELSE <<>>
         IN <<ofName>> \o ofMembers \o ofImplementer
            \o usagesOf(Tail(symbols), declFile, useFile, from + 1 + Len(symbol.children))

RequestWorkspace(ext, other, source, sibling, elsewhere, declarationFirst, definitionLinks) ==
    Workspace(<<Uri("api", "s", ext), Uri("web", "u", ext), Uri("api", "c", other),
                Uri("web", "c", other), Uri("web", "v", other)>>,
              (Uri("api", "s", ext) :> <<source>> @@ Uri("web", "u", ext) :> <<>>
               @@ Uri("api", "c", other) :> sibling
               @@ Uri("web", "c", other) :> elsewhere
               @@ Uri("web", "v", other) :> <<>>),
              usagesOf(<<source>>, Uri("api", "s", ext), Uri("web", "u", ext), 1)
              \o usagesOf(sibling, Uri("api", "c", other), Uri("web", "v", other), 1)
              \o usagesOf(elsewhere, Uri("web", "c", other), Uri("web", "v", other), 5),
              <<Uri("api", "s", ext), Uri("web", "u", ext)>>,
              declarationFirst, definitionLinks)

RequestWorkspaces ==
    {RequestWorkspace("go", "ts", source, sibling, TsElsewhere, f, l) :
        source \in GoSymbolPool,
        sibling \in {<<>>} \cup {<<c>> : c \in TsSymbolPool},
        f \in BOOLEAN, l \in BOOLEAN}
    \cup
    {RequestWorkspace("ts", "go", source, sibling, GoElsewhere, f, l) :
        source \in TsSymbolPool,
        sibling \in {<<>>} \cup {<<c>> : c \in GoSymbolPool},
        f \in BOOLEAN, l \in BOOLEAN}

\* the positions of a document a request is issued at: the declared names,
\* the last line of each declaration (no word there) and the uses
RequestPositions(uri) ==
    {Position(d.line, 1) : d \in declaredNames(uri)}
    \cup {Position(documentSymbols(uri)[i].range[2], 0) : i \in DOMAIN documentSymbols(uri)}
    \cup {Position(ws.usages[i].line, 1) :
            i \in {j \in DOMAIN ws.usages :
                      ws.usages[j].uri = uri /\ ws.usages[j].role = "use"}}

\* the top-level symbol that declares (or contains the member that declares)
\* the name a request is about: [fileUri, symbol], or null
sourceOf(declaration) ==
    IF declaration = null THEN null
    ELSE LET symbols == documentSymbols(declaration.uri)
             owns(symbol) ==
                 \/ symbol.range[1] = declaration.line
                 \/ \E c \in DOMAIN symbol.children :
                        symbol.children[c].line = declaration.line
         IN IF \E i \in DOMAIN symbols : owns(symbols[i])
            THEN [fileUri |-> declaration.uri,
                  symbol |-> symbols[CHOOSE i \in DOMAIN symbols : owns(symbols[i])]]
            ELSE null

Requested(op, uri, position) ==
    With(targetAt(uri, position), LAMBDA declaration :
        [op |-> op, uri |-> uri, position |-> position,
         declaration |-> declaration, source |-> sourceOf(declaration)])

\* the answer: the list the operation returns (locations), and with it the
\* pathway and counterparts of the finder, the locations the finder gave
\* (cross) and those the provider collected itself (own)
Answered(op, found, own, locations) ==
    [op |-> op, pathway |-> found.pathway, counterparts |-> found.counterparts,
     own |-> own, cross |-> found.locations, locations |-> locations,
     threw |-> found.threw]

\* provideReferences accepted: the result of findReferences
FindReferences ==
    \E d \in DOMAIN ws.open :
        \E position \in RequestPositions(ws.open[d]) :
            /\ req' = Requested("references", ws.open[d], position)
            /\ res' = With(findReferences(ws.open[d], position), LAMBDA found :
                           Answered("references", found, <<>>, found.locations))
            /\ UNCHANGED <<ws, strictExport, providerVars>>

\* findImplementations called without a known declaration
FindImplementations ==
    \E d \in DOMAIN ws.open :
        \E position \in RequestPositions(ws.open[d]) :
            /\ req' = Requested("implementations", ws.open[d], position)
            /\ res' = With(findImplementations(ws.open[d], position, null),
                           LAMBDA found :
                               Answered("implementations", found, <<>>, found.locations))
            /\ UNCHANGED <<ws, strictExport, providerVars>>

\* provideImplementation accepted: the list its try block returns
ProvideImplementation ==
    \E d \in DOMAIN ws.open :
        \E position \in RequestPositions(ws.open[d]) :
            /\ req' = Requested("provideImplementation", ws.open[d], position)
            /\ res' = With(provideImplementation(ws.open[d], position),
                           LAMBDA provided :
                               Answered("provideImplementation", provided.cross,
                                        provided.own, provided.allImplementations))
            /\ UNCHANGED <<ws, strictExport, providerVars>>

RequestInit ==
    /\ refIsProcessingGlobal = FALSE
    /\ implIsProcessingGlobal = FALSE
    /\ enable = TRUE
    /\ acts = <<>>
    /\ ws \in RequestWorkspaces
    /\ strictExport \in BOOLEAN
    /\ req = NoRequest
    /\ res = NoResult

RequestNext ==
    \/ FindReferences
    \/ FindImplementations
    \/ ProvideImplementation

RequestSpec == RequestInit /\ [][RequestNext]_vars

(***************************************************************************)
(* The finders run on a Go struct field, against TS interfaces that carry  *)
(* a property named after the JSON tag, after the field, after both (in    *)
(* either order) or after neither.                                         *)
(***************************************************************************)
GoStructOf(n, first, fields) ==
    Symbol(n, "Struct", "struct", FALSE, first, first + Len(fields) + 1,
           [i \in DOMAIN fields |-> [fields[i] EXCEPT !.line = first + i]])
TsInterfaceOf(n, export, first, properties) ==
    Symbol(n, "Interface", "interface", export, first, first + Len(properties) + 1,
           [i \in DOMAIN properties |-> [properties[i] EXCEPT !.line = first + i]])

\* Ba `json:"ba"`, Ba, ba, Ba `json:"ab"`
GoFieldPool ==
    {Member(<<"B", "a">>, "Field", 2, <<"b", "a">>),
     Member(<<"B", "a">>, "Field", 2, <<>>),
     Member(<<"b", "a">>, "Field", 2, <<>>),
     Member(<<"B", "a">>, "Field", 2, <<"a", "b">>)}

TsProperty(n) == Member(n, "Property", 2, <<>>)
TsPropertyLists ==
    {<<>>, <<TsProperty(<<"b", "a">>)>>, <<TsProperty(<<"B", "a">>)>>,
     <<TsProperty(<<"B", "a">>), TsProperty(<<"b", "a">>)>>,
     <<TsProperty(<<"b", "a">>), TsProperty(<<"B", "a">>)>>,
     <<TsProperty(<<"a", "b">>)>>}

FieldWorkspaces ==
    {RequestWorkspace("go", "ts", GoStructOf(<<"A", "b">>, 1, <<field>>), sibling,
                      <<>>, f, l) :
        field \in GoFieldPool,
        sibling \in {<<>>} \cup {<<TsInterfaceOf(n, e, 1, properties)>> :
                                    n \in RequestNames, e \in BOOLEAN,
                                    properties \in TsPropertyLists},
        f \in BOOLEAN, l \in BOOLEAN}

FieldInit ==
    /\ refIsProcessingGlobal = FALSE
    /\ implIsProcessingGlobal = FALSE
    /\ enable = TRUE
    /\ acts = <<>>
    /\ ws \in FieldWorkspaces
    /\ strictExport \in BOOLEAN
    /\ req = NoRequest
    /\ res = NoResult

FieldSpec == FieldInit /\ [][RequestNext]_vars

(***************************************************************************)
(* The finders run on an enum constant AB or an enum type A, against       *)
(* sibling files that declare up to two symbols of those names, some of    *)
(* the enum shape and some not.                                            *)
(***************************************************************************)
\* const AB = 1 (untyped)
GoPlainConst(first) == Symbol(<<"A", "B">>, "Constant", "const", FALSE, first, first, <<>>)
\* type A int (a defined type) and type A interface { Ba() }
GoDefinedType(first) == Symbol(<<"A">>, "Class", "type", FALSE, first, first, <<>>)
\* const AB = "x" (not exported) and export const AB = f()
TsLocalEnumConst(first) ==
    Symbol(<<"A", "B">>, "Constant", "enumconst", FALSE, first, first, <<>>)
TsComputedConst(first) == Symbol(<<"A", "B">>, "Constant", "const", TRUE, first, first, <<>>)
\* type A = typeof AB (not exported) and export type A = string
TsLocalEnumType(first) == Symbol(<<"A">>, "Variable", "enumtype", FALSE, first, first, <<>>)
TsPlainTypeAlias(first) == Symbol(<<"A">>, "Variable", "typealias", TRUE, first, first, <<>>)

GoEnumSiblings(first) ==
    {GoEnumConst(first), GoPlainConst(first), GoEnumType(first), GoDefinedType(first),
     GoInterface(<<"A">>, first)}
TsEnumSiblings(first) ==
    {TsEnumConst(first), TsLocalEnumConst(first), TsComputedConst(first),
     TsEnumType(first), TsLocalEnumType(first), TsPlainTypeAlias(first)}

EnumWorkspaces ==
    {RequestWorkspace("go", "ts", source, sibling, <<>>, f, l) :
        source \in {GoEnumConst(1), GoEnumType(1)},
        sibling \in {<<>>} \cup {<<c>> : c \in TsEnumSiblings(1)}
                    \cup {<<c, d>> : c \in TsEnumSiblings(1), d \in TsEnumSiblings(5)},
        f \in BOOLEAN, l \in BOOLEAN}
    \cup
    {RequestWorkspace("ts", "go", source, sibling, <<>>, f, l) :
        source \in {TsEnumConst(1), TsEnumType(1)},
        sibling \in {<<>>} \cup {<<c>> : c \in GoEnumSiblings(1)}
                    \cup {<<c, d>> : c \in GoEnumSiblings(1), d \in GoEnumSiblings(5)},
        f \in BOOLEAN, l \in BOOLEAN}

EnumInit ==
    /\ refIsProcessingGlobal = FALSE
    /\ implIsProcessingGlobal = FALSE
    /\ enable = TRUE
    /\ acts = <<>>
    /\ ws \in EnumWorkspaces
    /\ strictExport \in BOOLEAN
    /\ req = NoRequest
    /\ res = NoResult

EnumSpec == EnumInit /\ [][RequestNext]_vars

(***************************************************************************)
(* The two case conversions applied to names: every string of at most     *)
(* MaxNameLen characters over an alphabet of ASCII letters, the           *)
(* underscore and three letters outside ASCII.                             *)
(***************************************************************************)
MaxNameLen == 3
CaseAlphabet == {"a", "A", "_", SharpS, DotlessI, KelvinSign}
CaseNames == UNION {[1..n -> CaseAlphabet] : n \in 0..MaxNameLen}

Converted(op, str, value) == [op |-> op, str |-> str, value |-> value]

CapitalizeFirstLetter ==
    \E str \in CaseNames :
        /\ req' = [op |-> "capitalizeFirstLetter", str |-> str]
        /\ res' = Converted("capitalizeFirstLetter", str, capitalizeFirstLetter(str))
        /\ UNCHANGED <<ws, strictExport, providerVars>>

LowercaseFirstLetter ==
    \E str \in CaseNames :
        /\ req' = [op |-> "lowercaseFirstLetter", str |-> str]
        /\ res' = Converted("lowercaseFirstLetter", str, lowercaseFirstLetter(str))
        /\ UNCHANGED <<ws, strictExport, providerVars>>

CaseInit ==
    /\ refIsProcessingGlobal = FALSE
    /\ implIsProcessingGlobal = FALSE
    /\ enable = TRUE
    /\ acts = <<>>
    /\ ws = NoWorkspace
    /\ strictExport = FALSE
    /\ req = NoRequest
    /\ res = NoResult

CaseNext ==
    \/ CapitalizeFirstLetter
    \/ LowercaseFirstLetter

CaseSpec == CaseInit /\ [][CaseNext]_vars

(***************************************************************************)
(* The finders run while an external call fails for one sibling file: the  *)
(* source file api/s has two sibling files api/c and api/d of the other    *)
(* language, each empty or declaring the counterpart of the source.        *)
(***************************************************************************)
FailWorkspace(ext, other, source, c, d, declarationFirst, failing) ==
    [Workspace(<<Uri("api", "s", ext), Uri("web", "u", ext), Uri("api", "c", other),
                 Uri("api", "d", other), Uri("web", "v", other)>>,
               (Uri("api", "s", ext) :> <<source>> @@ Uri("web", "u", ext) :> <<>>
                @@ Uri("api", "c", other) :> c
                @@ Uri("api", "d", other) :> d
                @@ Uri("web", "v", other) :> <<>>),
               usagesOf(<<source>>, Uri("api", "s", ext), Uri("web", "u", ext), 1)
               \o usagesOf(c, Uri("api", "c", other), Uri("web", "v", other), 1)
               \o usagesOf(d, Uri("api", "d", other), Uri("web", "v", other), 5),
               <<Uri("api", "s", ext), Uri("web", "u", ext)>>,
               declarationFirst, FALSE)
       EXCEPT !.failing = failing]

\* no call fails, or one kind of call fails for one of the two sibling files
Failures(other) ==
    {NoFailure}
    \cup {[NoFailure EXCEPT !.symbols = {Uri("api", b, other)}] : b \in {"c", "d"}}
    \cup {[NoFailure EXCEPT !.references = {Uri("api", b, other)}] : b \in {"c", "d"}}
    \cup {[NoFailure EXCEPT !.implementations = {Uri("api", b, other)}] :
             b \in {"c", "d"}}

\* a source declaration and the declaration that is its counterpart
FailPairs ==
    {<<"go", "ts", GoFunction(<<"A", "b">>, 1), TsFunction(<<"a", "b">>, TRUE, 1)>>,
     <<"go", "ts", GoStruct(<<"A", "b">>, 1), TsInterface(<<"A", "b">>, TRUE, 1)>>,
     <<"go", "ts", GoInterface(<<"A", "b">>, 1),
       TsInterfaceWithMethods(<<"A", "b">>, TRUE, 1)>>,
     <<"ts", "go", TsFunction(<<"a", "b">>, TRUE, 1), GoFunction(<<"A", "b">>, 1)>>,
     <<"ts", "go", TsInterface(<<"A", "b">>, TRUE, 1), GoStruct(<<"A", "b">>, 1)>>,
     <<"ts", "go", TsInterfaceWithMethods(<<"A", "b">>, TRUE, 1),
       GoInterface(<<"A", "b">>, 1)>>}

FailWorkspacesOf(pair) ==
    {FailWorkspace(pair[1], pair[2], pair[3], c, d, f, failing) :
        c \in {<<>>, <<pair[4]>>}, d \in {<<>>, <<pair[4]>>},
        f \in BOOLEAN, failing \in Failures(pair[2])}

FailWorkspaces == UNION {FailWorkspacesOf(pair) : pair \in FailPairs}

FailInit ==
    /\ refIsProcessingGlobal = FALSE
    /\ implIsProcessingGlobal = FALSE
    /\ enable = TRUE
    /\ acts = <<>>
    /\ ws \in FailWorkspaces
    /\ strictExport \in BOOLEAN
    /\ req = NoRequest
    /\ res = NoResult

FailSpec == FailInit /\ [][RequestNext]_vars

(***************************************************************************)
(* Properties of the provider state machine.                               *)
(***************************************************************************)
\* the accepted activations of provider k that have not returned yet
InFlight(k) ==
    {a \in DOMAIN acts : /\ acts[a].kind = k
                         /\ acts[a].entry = "accepted"
                         /\ acts[a].pc # "returned"}

\* a is b or one of the activations whose awaited call invoked b
RECURSIVE IsAncestor(_, _)
IsAncestor(a, b) ==
    IF b = 0 THEN FALSE
    ELSE IF a = b THEN TRUE
    ELSE IsAncestor(a, acts[b].parent)

(***************************************************************************)
(* C1: the guard flag of a provider is true only while a request that set  *)
(* it is between setting it and returning, and it is cleared on every exit *)
(* path of that request (locations, empty result, exception).              *)
(***************************************************************************)
C1_FlagOnlyWhileInFlight ==
    /\ \A k \in Kinds : GuardHeld(k) <=> InFlight(k) # {}
    /\ \A a \in DOMAIN acts :
          (acts[a].entry = "accepted" /\ acts[a].pc = "returned")
             => /\ acts[a].exit \in {"locations", "empty", "throw"}
                /\ (InFlight(acts[a].kind) = {} => ~GuardHeld(acts[a].kind))

\* a request left its try block by an exception and the flag is clear
C1_ClearedAfterThrow ==
    \E a \in DOMAIN acts :
        /\ acts[a].entry = "accepted"
        /\ acts[a].exit = "throw"
        /\ ~GuardHeld(acts[a].kind)

(***************************************************************************)
(* C2: at most one accepted request is in flight in the process, counted   *)
(* over both entry points; every other request arriving meanwhile finds    *)
(* the guard set and returns null.                                         *)
(***************************************************************************)
C2_OneRequestInFlight ==
    Cardinality(InFlight("ref") \cup InFlight("impl")) <= 1

(***************************************************************************)
(* C3: a request never re-enters its own finder: a provider invoked while  *)
(* an activation of the same provider is among its callers leaves through  *)
(* the guard, and no two activations of one finder are in progress at the  *)
(* same time.                                                              *)
(***************************************************************************)
C3_NoReentry ==
    /\ \A k \in Kinds : Cardinality(InFlight(k)) <= 1
    /\ \A a, b \in DOMAIN acts :
          (/\ a # b
           /\ IsAncestor(a, b)
           /\ acts[a].kind = acts[b].kind
           /\ acts[a].entry = "accepted")
             => /\ acts[b].entry = "guard"
                /\ acts[b].result = "null"

\* a finder's executeReferenceProvider / executeImplementationProvider call
\* came back into the provider it runs under, and was turned away
C3_NestedCallRejected ==
    \E a, b \in DOMAIN acts :
        /\ acts[b].parent = a
        /\ acts[a].kind = acts[b].kind
        /\ acts[a].pc = "awaiting"
        /\ acts[b].entry = "guard"

(***************************************************************************)
(* C4: a provider never lets an exception reach the editor: whatever the   *)
(* finder does, the result of a returned request is a list of locations    *)
(* or null.                                                                *)
(***************************************************************************)
C4_NoExceptionEscapes ==
    \A a \in DOMAIN acts :
        /\ acts[a].result # "exception"
        /\ acts[a].pc = "returned"
              => acts[a].result \in {"null", "locations", "emptylist"}
        /\ acts[a].exit = "throw" => acts[a].result = "null"

\* a finder threw under each provider and the request returned null
C4_ThrowBecameNull ==
    \A k \in Kinds :
        \E a \in DOMAIN acts :
            /\ acts[a].kind = k
            /\ acts[a].exit = "throw"
            /\ acts[a].pc = "returned"
            /\ acts[a].result = "null"

(***************************************************************************)
(* Properties of the matching engine.                                      *)
(***************************************************************************)
\* the exported flag the scan computes for a candidate (or sibling symbol)
CandidateExported(c) ==
    IF c.fileUri.ext = "go" THEN isGoSymbolExported(c.symbol.name)
    ELSE isTsLineExported(c.symbol)

\* a function scan was made with the strict setting on
StrictFunctionScan ==
    /\ res.op = "scan"
    /\ req.symbolKind = "Function"
    /\ res.strict

(***************************************************************************)
(* C5: with strictExport on, the function matcher (Go function to TS       *)
(* function and TS function to Go function) returns no candidate whose     *)
(* exported flag differs from the exported flag of the source symbol.      *)
(***************************************************************************)
C5_StrictParity ==
    StrictFunctionScan =>
        \A i \in DOMAIN res.candidates :
            CandidateExported(res.candidates[i]) = req.isSourceExported

\* a strict function scan kept one candidate and dropped a sibling function
\* of an accepted name whose exported flag differs from the source's
C5_StrictKeptAndDropped ==
    /\ StrictFunctionScan
    /\ res.candidates # <<>>
    /\ \E i \in DOMAIN symbolsOfFiles(res.files) :
          LET e == symbolsOfFiles(res.files)[i] IN
          /\ e.symbol.kind = "Function"
          /\ includes(res.searchNames, e.symbol.name)
          /\ CandidateExported(e) # req.isSourceExported

(***************************************************************************)
(* C6: with strictExport on, only exported functions are matched: every    *)
(* pair the function matcher produces has an exported source and an        *)
(* exported candidate (Go name capitalized, TS declaration exported).      *)
(***************************************************************************)
C6_StrictOnlyExported ==
    StrictFunctionScan =>
        \A i \in DOMAIN res.candidates :
            /\ req.isSourceExported
            /\ IF res.candidates[i].fileUri.ext = "go"
               THEN isCapitalized(res.candidates[i].symbol.name)
               ELSE isTsLineExported(res.candidates[i].symbol)

(***************************************************************************)
(* C7: every candidate the struct/interface matchers return is exported    *)
(* (Go: capitalized name, TS: declaration line starts with export),        *)
(* whatever strictExport and the exported flag of the source are.          *)
(***************************************************************************)
C7_TypeCandidatesExported ==
    (res.op = "scan" /\ req.symbolKind \in {"Struct", "Interface"}) =>
        \A i \in DOMAIN res.candidates :
            IF res.candidates[i].fileUri.ext = "go"
            THEN isCapitalized(res.candidates[i].symbol.name)
            ELSE isTsLineExported(res.candidates[i].symbol)

(***************************************************************************)
(* Properties of the finders and of the implementation provider.          *)
(***************************************************************************)
FinderAnswered == res.op \in {"references", "implementations"}

otherLanguage(uri, location) ==
    isTs(languageIdOf(location.uri)) # isTs(languageIdOf(uri))

\* the struct/interface pair a counterpart makes with the source symbol is a
\* pair of exported declarations (vacuous for any other pair)
StructInterfacePairExported(source, counterpart) ==
    LET goSide == IF source.fileUri.ext = "go" THEN source.symbol
                  ELSE counterpart.symbol
        tsSide == IF source.fileUri.ext = "go" THEN counterpart.symbol
                  ELSE source.symbol
    IN (/\ source.fileUri.ext # counterpart.fileUri.ext
        /\ goSide.kind = "Struct"
        /\ tsSide.kind = "Interface")
           => (isCapitalized(goSide.name) /\ isTsLineExported(tsSide))

\* C8: whatever the pathway of findReferences or findImplementations
\* (interface, generic symbol, container of a field), a Go struct and a
\* TypeScript interface are paired only if the struct's name is capitalized
\* and the interface is exported.
C8_StructInterfaceBothExported ==
    (FinderAnswered /\ req.source # null) =>
        \A i \in DOMAIN res.counterparts :
            StructInterfacePairExported(req.source, res.counterparts[i])

\* C9 (as amended): findReferences and findImplementations return only
\* locations of the other language than the requesting document;
\* provideImplementation returns the same-language locations it collected
\* itself followed by the other-language locations of findImplementations.
C9_FindersCrossLanguageOnly ==
    /\ FinderAnswered =>
          \A i \in DOMAIN res.locations : otherLanguage(req.uri, res.locations[i])
    /\ res.op = "provideImplementation" =>
          /\ res.locations = res.own \o res.cross
          /\ \A i \in DOMAIN res.cross : otherLanguage(req.uri, res.cross[i])
          /\ \A i \in DOMAIN res.own : ~otherLanguage(req.uri, res.own[i])

\* C9 witness: an implementation request answered with locations of both
\* languages, and so are a references request's several locations its case
C9_OwnThenCross ==
    /\ res.op = "provideImplementation"
    /\ res.own # <<>>
    /\ Len(res.cross) >= 2

\* C9 (as claimed): every location a references or implementations request
\* returns, the provider's list included, is of the other language than the
\* requesting document.
C9_EveryLocationCrossLanguage ==
    res.op # "none" =>
        \A i \in DOMAIN res.locations : otherLanguage(req.uri, res.locations[i])

\* C10: every counterpart a matcher selects is declared in a file of the
\* directory that holds the declaration of the source symbol.
C10_CounterpartsInDeclarationDirectory ==
    (res.op # "none" /\ req.declaration # null) =>
        \A i \in DOMAIN res.counterparts :
            dirname(res.counterparts[i].fileUri) = dirname(req.declaration.uri)

(***************************************************************************)
(* Properties of the matchers.                                             *)
(***************************************************************************)
SelectAnswered == res.op \in {"selectReferences", "selectDeclarations"}

\* the accepted candidates no other accepted candidate outscores
MaximalCandidates ==
    {c \in {res.candidates[i] : i \in DOMAIN res.candidates} :
        \A i \in DOMAIN res.candidates : res.candidates[i].score <= c.score}

\* C11: the scored matchers return the declarations (the references) of
\* exactly the accepted candidates whose score is the maximum among the
\* accepted candidates: none of a lower score, and every one of a tie.
C11_ExactlyTheBestScored ==
    SelectAnswered =>
        /\ {res.locations[i] : i \in DOMAIN res.locations}
              = {Location(c.fileUri, selectionRangeStart(c.symbol)) :
                    c \in MaximalCandidates}
        /\ {<<res.counterparts[i].fileUri, res.counterparts[i].symbol>> :
               i \in DOMAIN res.counterparts}
              = {<<c.fileUri, c.symbol>> : c \in MaximalCandidates}

\* C11 witness: two candidates of different scores were accepted, the file
\* listed first holding the lower one, and one declaration was returned
C11_LowerScoredDropped ==
    /\ SelectAnswered
    /\ Len(res.candidates) = 2
    /\ res.candidates[1].score > res.candidates[2].score
    /\ res.candidates[1].fileUri.base = "d"
    /\ Len(res.locations) = 1

\* the request is about the name of an interface that has methods and was
\* answered by the interface pathway
InterfaceWithMethodsAnswered ==
    /\ res.op \in {"references", "implementations", "provideImplementation"}
    /\ res.pathway = "interface"
    /\ req.source # null
    /\ req.source.symbol.kind = "Interface"
    /\ req.declaration.line = req.source.symbol.range[1]
    /\ hasMethods(req.source.symbol)

\* C12: whenever the interface-with-methods matcher returns a counterpart,
\* in either direction, the counterpart carries the very name of the
\* source interface and has, like the source, at least one Method child.
C12_SameNameBothWithMethods ==
    InterfaceWithMethodsAnswered =>
        \A i \in DOMAIN res.counterparts :
            /\ res.counterparts[i].symbol.name = req.source.symbol.name
            /\ hasMethods(res.counterparts[i].symbol)

\* the member of a top-level symbol declared at a line
memberAtLine(symbol, line) ==
    symbol.children[CHOOSE c \in DOMAIN symbol.children : symbol.children[c].line = line]

MethodAnswered ==
    /\ res.op \in {"references", "implementations", "provideImplementation"}
    /\ res.pathway = "method"
    /\ req.source # null

FieldAnswered ==
    /\ res.op \in {"references", "implementations", "provideImplementation"}
    /\ res.pathway = "field"
    /\ req.source # null
    /\ req.source.fileUri.ext = "go"

\* the Go field a request is about and the one key it is searched by
sourceField == memberAtLine(req.source.symbol, req.declaration.line)
searchKey == IF sourceField.jsonTag # <<>> THEN sourceField.jsonTag ELSE sourceField.name

\* C14: in direction Go to TS the field matcher searches by one key, the
\* JSON tag of the Go field when it has one and the field name otherwise:
\* a returned TS property is always named exactly that key, so a tagged
\* field is never matched to a property named after the raw field name.
C14_PropertyNamedAfterTheKey ==
    FieldAnswered =>
        \A i \in DOMAIN res.counterparts :
            memberAtLine(res.counterparts[i].symbol, res.counterparts[i].line).name
                = searchKey

\* C14 witness: the tagged field Ba `json:"ba"` was matched to the property
\* ba of a TS interface that declares a property Ba before it
C14_TagChosenOverFieldName ==
    /\ FieldAnswered
    /\ sourceField.jsonTag # <<>>
    /\ sourceField.jsonTag # sourceField.name
    /\ res.counterparts # <<>>
    /\ res.counterparts[1].symbol.children[1].name = sourceField.name
    /\ memberAtLine(res.counterparts[1].symbol, res.counterparts[1].line).name
          = sourceField.jsonTag

EnumAnswered ==
    /\ res.op = "references"
    /\ res.pathway \in {"enumConst", "enumType"}
    /\ req.source # null

\* what the declaration line of a symbol shows: the enum shape of its
\* language, for a constant or for a type
EnumShaped(fileUri, symbol, pathway) ==
    IF pathway = "enumConst"
    THEN /\ symbol.decl = "enumconst"
         /\ symbol.kind \in (IF fileUri.ext = "go" THEN {"Constant"}
                             ELSE {"Constant", "Variable"})
         /\ fileUri.ext = "go" \/ symbol.export
    ELSE /\ symbol.decl = "enumtype"
         /\ fileUri.ext = "go" \/ symbol.export

\* the files of the other language in the directory of a file
siblingFilesOf(fileUri) ==
    SelectSeq(ws.files, LAMBDA f : dirname(f) = dirname(fileUri) /\ f.ext # fileUri.ext)

\* the same-named symbols of the sibling files that lack the enum shape
Misshapen ==
    {e \in {symbolsOfFiles(siblingFilesOf(req.source.fileUri))[i] :
               i \in DOMAIN symbolsOfFiles(siblingFilesOf(req.source.fileUri))} :
        /\ e.symbol.name = req.source.symbol.name
        /\ ~EnumShaped(e.fileUri, e.symbol, res.pathway)}

\* C15: the enum constant matcher and the enum type matcher use only a
\* counterpart of exactly the source name that itself has the enum shape of
\* its language; no reference of a same-named symbol without that shape is
\* part of the result.
C15_OnlyEnumShapedCounterparts ==
    EnumAnswered =>
        /\ \A i \in DOMAIN res.counterparts :
               /\ res.counterparts[i].symbol.name = req.source.symbol.name
               /\ EnumShaped(res.counterparts[i].fileUri, res.counterparts[i].symbol,
                             res.pathway)
        /\ \A e \in Misshapen :
               \A i \in DOMAIN res.locations :
                   ~(\E j \in DOMAIN executeReferenceProvider(e.fileUri,
                                         selectionRangeStart(e.symbol)) :
                        executeReferenceProvider(e.fileUri,
                            selectionRangeStart(e.symbol))[j] = res.locations[i])

\* C15 witness: an enum was answered with the references of its counterpart
\* while the sibling file also declares a same-named symbol without the shape
C15_MisshapenNamesakeSkipped ==
    /\ EnumAnswered
    /\ res.counterparts # <<>>
    /\ res.locations # <<>>
    /\ Misshapen # {}

(***************************************************************************)
(* Properties of the case conversions.                                     *)
(***************************************************************************)
CaseConverted == res.op \in {"capitalizeFirstLetter", "lowercaseFirstLetter"}

\* the conversion the answered one is paired with
sameConversion(str) ==
    IF res.op = "capitalizeFirstLetter" THEN capitalizeFirstLetter(str)
    ELSE lowercaseFirstLetter(str)
otherConversion(str) ==
    IF res.op = "capitalizeFirstLetter" THEN lowercaseFirstLetter(str)
    ELSE capitalizeFirstLetter(str)

\* f(f(n)) = f(n), "" stays "", and nothing after the first character changes
IdempotentOnFirstCharacter ==
    /\ sameConversion(res.value) = res.value
    /\ res.str = <<>> => res.value = <<>>
    /\ res.str # <<>> =>
          /\ Len(res.value) >= Len(res.str)
          /\ SubSeq(res.value, Len(res.value) - Len(res.str) + 2, Len(res.value))
                = Tail(res.str)

\* g(f(n)) = g(n) for the other conversion g, and the length is kept
RoundTripAndLength ==
    /\ otherConversion(res.value) = otherConversion(res.str)
    /\ Len(res.value) = Len(res.str)

\* the first character has a one-character counterpart of the other case
\* that converts back to it, or has no case at all
startsPlain(str) ==
    str = <<>> \/ Head(str) \notin {SharpS, DotlessI, KelvinSign}

\* C16 as stated: for every name the two round-trip laws hold and both
\* conversions are idempotent, change at most the first character, keep the
\* length and leave the empty string unchanged.
C16_CaseLawsForEveryName ==
    CaseConverted => IdempotentOnFirstCharacter /\ RoundTripAndLength

\* C16 amended: both conversions are idempotent, leave the empty string and
\* everything after the first character unchanged for every name; the two
\* round-trip laws and the length hold for the names whose first character
\* is an ASCII letter or has no case.
C16_CaseLawsForPlainNames ==
    CaseConverted =>
        /\ IdempotentOnFirstCharacter
        /\ startsPlain(res.str) => RoundTripAndLength

\* C16 witness: a name whose first letter the conversion changed
C16_FirstLetterConverted ==
    /\ CaseConverted
    /\ startsPlain(res.str)
    /\ Len(res.str) > 1
    /\ res.value # res.str

(***************************************************************************)
(* Properties of a sequence of requests.                                   *)
(***************************************************************************)
\* every request issued so far has been completed
AllCompleted == \A a \in DOMAIN acts : acts[a].pc = "returned"

\* the provider state a request meets when nothing was ever requested
NoStateRetained == ~refIsProcessingGlobal /\ ~implIsProcessingGlobal

requestedName ==
    IF req.declaration.line = req.source.symbol.range[1]
    THEN req.source.symbol.name
    ELSE memberAtLine(req.source.symbol, req.declaration.line).name

counterpartNames ==
    {requestedName, lowercaseFirstLetter(requestedName),
     capitalizeFirstLetter(requestedName)}
    \cup (IF req.declaration.line = req.source.symbol.range[1] THEN {}
          ELSE {memberAtLine(req.source.symbol, req.declaration.line).jsonTag})

\* no file of the other language beside the declaration declares a symbol
\* or a member of one of those names (or by a JSON tag of that name): there
\* is no such file, or none holds a candidate
NoCounterpartExists ==
    \A i \in DOMAIN siblingFilesOf(req.declaration.uri) :
        \A j \in DOMAIN documentSymbols(siblingFilesOf(req.declaration.uri)[i]) :
            LET symbol == documentSymbols(siblingFilesOf(req.declaration.uri)[i])[j]
            IN /\ symbol.name \notin counterpartNames
               /\ \A c \in DOMAIN symbol.children :
                      /\ symbol.children[c].name \notin counterpartNames
                      /\ symbol.children[c].jsonTag \notin counterpartNames \ {<<>>}

\* C18: a request for which no counterpart exists (no sibling file of the
\* other language, or none with a candidate) is answered by findReferences
\* and findImplementations with an empty list.
C18_NoCounterpartEmptyResult ==
    (FinderAnswered /\ req.source # null /\ NoCounterpartExists)
        => res.locations = <<>>

(***************************************************************************)
(* Properties of requests during which an external call fails.             *)
(***************************************************************************)
\* no call made for the file of a counterpart fails
Healthy(fileUri) ==
    /\ fileUri \notin ws.failing.symbols
    /\ fileUri \notin ws.failing.references
    /\ fileUri \notin ws.failing.implementations

\* C19: a failing external call takes away only what its own sibling file
\* or candidate would contribute: the request is not abandoned, and every
\* counterpart obtained from a sibling file without a failing call is
\* returned (its declaration is among the locations of the answer).
C19_FailureCostsOnlyItsOwnFile ==
    (res.op \in {"references", "implementations", "provideImplementation"}
        /\ req.source # null)
        => /\ ~res.threw
           /\ \A i \in DOMAIN res.counterparts :
                  Healthy(res.counterparts[i].fileUri) =>
                      \E j \in DOMAIN res.locations :
                          res.locations[j]
                              = Location(res.counterparts[i].fileUri,
                                         Position(res.counterparts[i].line, 1))

(***************************************************************************)
(* Properties of the kind routing of the scan.                             *)
(***************************************************************************)
\* the ranges of the function symbols a file lists, at top level or as
\* children of its top-level symbols
functionRangesOf(fileUri) ==
    {documentSymbols(fileUri)[i].range :
        i \in {j \in DOMAIN documentSymbols(fileUri) :
                  documentSymbols(fileUri)[j].kind = "Function"}}
    \cup UNION {{<<symbol.children[c].line,
                   symbol.children[c].line + symbol.children[c].span>> :
                    c \in {k \in DOMAIN symbol.children :
                              symbol.children[k].kind = "Function"}} :
                   symbol \in {documentSymbols(fileUri)[i] :
                                  i \in DOMAIN documentSymbols(fileUri)}}

\* the range lies inside another function's range and is not that range
insideAFunction(fileUri, range) ==
    \E outer \in functionRangesOf(fileUri) :
        outer # range /\ outer[1] <= range[1] /\ range[2] <= outer[2]

\* C20: the scan accepts by kind routing alone: a Function source gets only
\* Function symbols listed at top level that lie in no other function's
\* range, a TS Interface source only Go Struct symbols, a Go Struct source
\* only TS Interface symbols, every other source kind or direction nothing;
\* no method and no nested function is ever a candidate.
C20_KindRoutingOnly ==
    res.op = "scan" =>
        \A i \in DOMAIN res.candidates :
            LET c == res.candidates[i] IN
            /\ \E j \in DOMAIN documentSymbols(c.fileUri) :
                   documentSymbols(c.fileUri)[j] = c.symbol
            /\ c.symbol.kind # "Method"
            /\ \/ /\ req.symbolKind = "Function"
                  /\ c.symbol.kind = "Function"
                  /\ ~insideAFunction(c.fileUri, c.symbol.range)
               \/ /\ req.symbolKind = "Interface"
                  /\ req.to = "go"
                  /\ c.symbol.kind = "Struct"
               \/ /\ req.symbolKind = "Struct"
                  /\ req.to = "ts"
                  /\ c.symbol.kind = "Interface"

\* C20 witness: a function scan returned the function of one sibling file
\* and not the same-named function the other file lists inside the range of
\* another function
C20_NestedFunctionPassedOver ==
    /\ res.op = "scan"
    /\ req.symbolKind = "Function"
    /\ req.symbolName = <<"a", "b">>
    /\ Len(res.candidates) = 1
    /\ \E i \in DOMAIN res.files :
           \E j \in DOMAIN documentSymbols(res.files[i]) :
               /\ documentSymbols(res.files[i])[j].kind = "Function"
               /\ documentSymbols(res.files[i])[j].name = <<"a", "b">>
               /\ insideAFunction(res.files[i], documentSymbols(res.files[i])[j].range)

(***************************************************************************)
(* Properties of the scoring.                                              *)
(***************************************************************************)
\* a function scan whose source flag is the one the finders compute for the
\* source (a Go source is exported exactly when its name is capitalized)
FunctionScanned ==
    /\ res.op = "scan"
    /\ req.symbolKind = "Function"
    /\ (req.to = "ts" => req.isSourceExported = isGoSymbolExported(req.symbolName))

\* C21: among the function candidates of one scan, a candidate of the
\* source's visibility ranks above every candidate of the other visibility,
\* and among the candidates of the other visibility one whose name is the
\* source function's own name ranks above one whose name is the converted
\* name.
C21_VisibilityThenOwnName ==
    FunctionScanned =>
        \A i, j \in DOMAIN res.candidates :
            LET c == res.candidates[i]
                d == res.candidates[j]
            IN /\ (/\ CandidateExported(c) = req.isSourceExported
                   /\ CandidateExported(d) # req.isSourceExported)
                      => c.score > d.score
               /\ (/\ CandidateExported(c) # req.isSourceExported
                   /\ CandidateExported(d) # req.isSourceExported
                   /\ c.symbol.name = req.symbolName
                   /\ d.symbol.name # req.symbolName)
                      => c.score > d.score

(***************************************************************************)
(* Properties of a request turned away at entry.                           *)
(***************************************************************************)
\* the activations that were turned away by the synchronous prefix
Rejected == {a \in DOMAIN acts : acts[a].entry # "accepted"}

\* C22: a request that arrives while the flag of its provider is set, or
\* while the extension is disabled, or on a document of another language,
\* returns null at once, leaves both flags as they are, and never makes an
\* external call afterwards (it stays returned and no provider invocation
\* has it as caller); the flag held by the request in flight stays set.
C22_RejectedRequestHasNoEffect ==
    [][/\ Len(acts') = Len(acts) + 1 =>
            LET n == acts'[Len(acts')]
                held == IF n.kind = "ref" THEN refIsProcessingGlobal
                        ELSE implIsProcessingGlobal
            IN /\ held => n.entry = "guard"
               /\ (~held /\ ~enable) => n.entry = "disabled"
               /\ n.entry # "accepted" =>
                     /\ n.pc = "returned"
                     /\ n.result = "null"
                     /\ n.stage = "none"
                     /\ refIsProcessingGlobal' = refIsProcessingGlobal
                     /\ implIsProcessingGlobal' = implIsProcessingGlobal
       /\ \A a \in Rejected :
             /\ acts'[a] = acts[a]
             /\ \A c \in DOMAIN acts' : acts'[c].parent # a]_vars

\* C22 witness: while an accepted request waits on a provider call, the
\* nested request of the same provider was turned away by the guard and a
\* request of the other provider by the language or the setting, and the
\* flag of the request in flight is still set
C22_RejectedWhileFlagHeld ==
    \E a, b, c \in DOMAIN acts :
        /\ acts[a].entry = "accepted"
        /\ acts[a].pc = "awaiting"
        /\ acts[b].parent = a
        /\ acts[b].kind = acts[a].kind
        /\ acts[b].entry = "guard"
        /\ acts[c].kind # acts[a].kind
        /\ acts[c].entry \in {"disabled", "language"}
        /\ GuardHeld(acts[a].kind)
        /\ ~GuardHeld(acts[c].kind)

(***************************************************************************)
(* calculateMatchScore applied to two candidates of one scan: the accepted *)
(* names are those a finder derives from a source name, the candidates     *)
(* any two names with any exported flags.                                  *)
(***************************************************************************)
AcceptedNameLists ==
    {goSearchNames(n) : n \in NamePool} \cup {tsSearchNames(n) : n \in NamePool}

Scored(name, exported, targetNames, isSourceExported) ==
    [name |-> name, exported |-> exported,
     score |-> calculateMatchScore(name, targetNames, exported, isSourceExported)]

CalculateMatchScore ==
    \E targetNames \in AcceptedNameLists, isSourceExported \in BOOLEAN,
       first \in NamePool, second \in NamePool,
       firstExported \in BOOLEAN, secondExported \in BOOLEAN :
        /\ req' = [op |-> "score", targetNames |-> targetNames,
                   isSourceExported |-> isSourceExported]
        /\ res' = [op |-> "score",
                   scored |-> <<Scored(first, firstExported, targetNames,
                                       isSourceExported),
                                Scored(second, secondExported, targetNames,
                                       isSourceExported)>>]
        /\ UNCHANGED <<ws, strictExport, providerVars>>

ScoreInit ==
    /\ refIsProcessingGlobal = FALSE
    /\ implIsProcessingGlobal = FALSE
    /\ enable = TRUE
    /\ acts = <<>>
    /\ ws = NoWorkspace
    /\ strictExport = FALSE
    /\ req = NoRequest
    /\ res = NoResult

ScoreNext ==
    \/ CalculateMatchScore

ScoreSpec == ScoreInit /\ [][ScoreNext]_vars

\* the two properties of a scored candidate the score is made of
exactOf(c) == c.name = req.targetNames[1]
sameOf(c) == c.exported = req.isSourceExported
propertiesOf(c) ==
    (IF exactOf(c) THEN 1 ELSE 0) + (IF sameOf(c) THEN 1 ELSE 0)

\* C23: the score is 3 exactly when the candidate's name is the first
\* accepted name and its exported flag is the source's, 2 exactly when only
\* the flags agree, 1 exactly when only the name is the first accepted name
\* and 0 otherwise; hence of two candidates the one with more of the two
\* properties has the strictly higher score.
C23_ScoreTable ==
    res.op = "score" =>
        /\ \A i \in DOMAIN res.scored :
              LET c == res.scored[i] IN
              /\ c.score \in 0..3
              /\ c.score = 3 <=> (exactOf(c) /\ sameOf(c))
              /\ c.score = 2 <=> (~exactOf(c) /\ sameOf(c))
              /\ c.score = 1 <=> (exactOf(c) /\ ~sameOf(c))
              /\ c.score = 0 <=> (~exactOf(c) /\ ~sameOf(c))
        /\ \A i, j \in DOMAIN res.scored :
              propertiesOf(res.scored[i]) > propertiesOf(res.scored[j])
                 => res.scored[i].score > res.scored[j].score

\* C23 witness: two candidates were scored against a list of two accepted
\* names, one with only the exported flag of the source (2) and one with
\* only the first accepted name (1)
C23_AccessibilityAboveName ==
    /\ res.op = "score"
    /\ Len(req.targetNames) = 2
    /\ sameOf(res.scored[1]) /\ ~exactOf(res.scored[1])
    /\ exactOf(res.scored[2]) /\ ~sameOf(res.scored[2])
    /\ res.scored[1].score = 2
    /\ res.scored[2].score = 1

\* C24: in the struct / interface scan a candidate whose name is the source
\* symbol's own name scores 100 and a candidate that has only the converted
\* name scores 90 (so the exported TS interface named like a Go struct is
\* returned with score 100).
C24_OwnNameScoresHundred ==
    (res.op = "scan" /\ req.symbolKind \in {"Struct", "Interface"}) =>
        \A i \in DOMAIN res.candidates :
            res.candidates[i].score =
                IF res.candidates[i].symbol.name = req.symbolName THEN 100 ELSE 90

(***************************************************************************)
(* Properties of the accepted names.                                       *)
(***************************************************************************)
\* the name the casing conversion of a scan's direction gives the source
convertedName ==
    IF req.to = "ts" THEN lowercaseFirstLetter(req.symbolName)
    ELSE capitalizeFirstLetter(req.symbolName)

ReferencesAnswered == res.op = "references"

\* the categories in the order of the claim, each with its classifier's
\* verdict at the position of the request
Categories == <<"enumType", "enumConst", "interface", "method", "field", "symbol">>

classified(category) ==
    IF category = "enumType" THEN getEnumTypeInfoAtPosition(req.uri, req.position) # null
    ELSE IF category = "enumConst"
    THEN getEnumConstInfoAtPosition(req.uri, req.position) # null
    ELSE IF category = "interface"
    THEN getInterfaceInfoAtPosition(req.uri, req.position) # null
    ELSE IF category = "method"
    THEN getInterfaceMethodInfoAtPosition(req.uri, req.position) # null
    ELSE IF category = "field" THEN getFieldInfoAtPosition(req.uri, req.position) # null
    ELSE getSymbolInfoAtPosition(req.uri, req.position) # null

\* what the matcher of a category returns for the request
matched(category) ==
    IF category = "enumType"
    THEN findEnumTypeReferences(getEnumTypeInfoAtPosition(req.uri, req.position),
                                languageIdOf(req.uri))
    ELSE IF category = "enumConst"
    THEN findEnumConstReferences(getEnumConstInfoAtPosition(req.uri, req.position),
                                 languageIdOf(req.uri))
    ELSE IF category = "interface"
    THEN findInterfaceReferences(getInterfaceInfoAtPosition(req.uri, req.position),
                                 languageIdOf(req.uri))
    ELSE IF category = "method"
    THEN findInterfaceMethodReferences(
             getInterfaceMethodInfoAtPosition(req.uri, req.position),
             languageIdOf(req.uri))
    ELSE IF category = "field"
    THEN findFieldReferences(getFieldInfoAtPosition(req.uri, req.position),
                             languageIdOf(req.uri))
    ELSE findSymbolReferences(getSymbolInfoAtPosition(req.uri, req.position),
                              languageIdOf(req.uri))

\* C26: findReferences answers through the matcher of the first category,
\* in the order enum type, enum constant, interface, interface method,
\* field, generic symbol, whose classifier recognises the position, and
\* returns what that matcher returns, an empty list included; with no
\* category it returns the empty list.
C26_FirstClassifierDecides ==
    ReferencesAnswered =>
        IF \E i \in DOMAIN Categories : classified(Categories[i])
        THEN LET first == CHOOSE i \in DOMAIN Categories :
                              /\ classified(Categories[i])
                              /\ \A j \in 1..(i - 1) : ~classified(Categories[j])
             IN /\ res.pathway = Categories[first]
                /\ res.locations = matched(Categories[first]).locations
        ELSE res.pathway = "none" /\ res.locations = <<>>

\* C26 witness: the position is recognised by two classifiers, the matcher
\* of the earlier category answered with the empty list, and the matcher of
\* the later category would have found references
C26_EmptyWithoutFallingThrough ==
    /\ ReferencesAnswered
    /\ res.locations = <<>>
    /\ \E i, j \in DOMAIN Categories :
          /\ i < j
          /\ res.pathway = Categories[i]
          /\ classified(Categories[j])
          /\ matched(Categories[j]).locations # <<>>

(***************************************************************************)
(* The finders run on a TS interface property, against Go structs of up to *)
(* two fields that carry the property's name as JSON tag, as field name,   *)
(* as both or as neither.                                                  *)
(***************************************************************************)
\* Ba, Ab `json:"Ba"`, Ba `json:"ab"`, Ab `json:"ab"`, Ba `json:"Ba"`
GoTaggedFieldPool ==
    {Member(<<"B", "a">>, "Field", 2, <<>>),
     Member(<<"A", "b">>, "Field", 2, <<"B", "a">>),
     Member(<<"B", "a">>, "Field", 2, <<"a", "b">>),
     Member(<<"A", "b">>, "Field", 2, <<"a", "b">>),
     Member(<<"B", "a">>, "Field", 2, <<"B", "a">>)}

GoFieldLists ==
    {<<>>} \cup {<<f>> : f \in GoTaggedFieldPool}
           \cup {<<f, g>> : f \in GoTaggedFieldPool, g \in GoTaggedFieldPool}

PropertyWorkspaces ==
    {RequestWorkspace("ts", "go",
                      TsInterfaceOf(<<"A", "b">>, TRUE, 1, <<TsProperty(property)>>),
                      sibling, <<>>, f, l) :
        property \in {<<"B", "a">>, <<"b", "a">>},
        sibling \in {<<>>} \cup {<<GoStructOf(n, 1, fields)>> :
                                    n \in RequestNames, fields \in GoFieldLists},
        f \in BOOLEAN, l \in BOOLEAN}

PropertyInit ==
    /\ refIsProcessingGlobal = FALSE
    /\ implIsProcessingGlobal = FALSE
    /\ enable = TRUE
    /\ acts = <<>>
    /\ ws \in PropertyWorkspaces
    /\ strictExport \in BOOLEAN
    /\ req = NoRequest
    /\ res = NoResult

PropertySpec == PropertyInit /\ [][RequestNext]_vars

\* a request about a TS interface property was answered by the field pathway
PropertyAnswered ==
    /\ res.op \in {"references", "implementations", "provideImplementation"}
    /\ res.pathway = "field"
    /\ req.source # null
    /\ req.source.fileUri.ext = "ts"

sourceProperty == memberAtLine(req.source.symbol, req.declaration.line)

\* the fields of a struct whose JSON tag / whose name is the property's name
taggedLike(symbol) ==
    {c \in DOMAIN symbol.children :
        isFieldKind(symbol.children[c])
        /\ extractJsonTagFromGoField(symbol.children[c]) = sourceProperty.name}
namedLike(symbol) ==
    {c \in DOMAIN symbol.children :
        isFieldKind(symbol.children[c])
        /\ symbol.children[c].name = sourceProperty.name}

\* C27: the Go field returned for a TS property is a field of the matched
\* struct whose JSON tag is the property's name whenever that struct has
\* such a field (the first of them, even if a field named like the property
\* precedes it); only when the struct has none is it the first field whose
\* name is the property's name.
C27_JsonTagBeforeFieldName ==
    PropertyAnswered =>
        \A i \in DOMAIN res.counterparts :
            LET struct == res.counterparts[i].symbol
                field == memberAtLine(struct, res.counterparts[i].line)
                first(S) == CHOOSE c \in S : \A d \in S : c <= d
            IN IF taggedLike(struct) # {}
               THEN field = struct.children[first(taggedLike(struct))]
               ELSE /\ namedLike(struct) # {}
                    /\ field = struct.children[first(namedLike(struct))]
                    /\ extractJsonTagFromGoField(field) # sourceProperty.name

\* C27 witness: the matched struct lists a field named like the property
\* before a field tagged with the property's name, and the tagged field was
\* returned
C27_TaggedFieldPreferred ==
    /\ PropertyAnswered
    /\ res.op = "references"
    /\ Len(res.counterparts) = 1
    /\ LET struct == res.counterparts[1].symbol
           field == memberAtLine(struct, res.counterparts[1].line)
       IN /\ Len(struct.children) = 2
          /\ struct.children[1].name = sourceProperty.name
          /\ extractJsonTagFromGoField(struct.children[1]) # sourceProperty.name
          /\ field = struct.children[2]
          /\ field.name # sourceProperty.name
          /\ extractJsonTagFromGoField(field) = sourceProperty.name

(***************************************************************************)
(* The finders run against reference providers that may list a location    *)
(* more than once (vscode.executeReferenceProvider concatenates the lists  *)
(* of all the providers registered for the document): the source file      *)
(* api/s has the sibling files api/c and api/d, each empty or declaring    *)
(* the counterpart of the source, and every use is reported once or twice. *)
(***************************************************************************)
EnumPairs ==
    {<<"go", "ts", GoEnumConst(1), TsEnumConst(1)>>,
     <<"go", "ts", GoEnumType(1), TsEnumType(1)>>,
     <<"ts", "go", TsEnumConst(1), GoEnumConst(1)>>,
     <<"ts", "go", TsEnumType(1), GoEnumType(1)>>}

RepeatWorkspacesOf(pair) ==
    {[FailWorkspace(pair[1], pair[2], pair[3], c, d, f, NoFailure)
         EXCEPT !.usages = IF twice THEN @ \o @ ELSE @] :
        c \in {<<>>, <<pair[4]>>}, d \in {<<>>, <<pair[4]>>},
        f \in BOOLEAN, twice \in BOOLEAN}

RepeatWorkspaces == UNION {RepeatWorkspacesOf(pair) : pair \in FailPairs \cup EnumPairs}

RepeatInit ==
    /\ refIsProcessingGlobal = FALSE
    /\ implIsProcessingGlobal = FALSE
    /\ enable = TRUE
    /\ acts = <<>>
    /\ ws \in RepeatWorkspaces
    /\ strictExport \in BOOLEAN
    /\ req = NoRequest
    /\ res = NoResult

RepeatSpec == RepeatInit /\ [][RequestNext]_vars

\* no two elements of the list have the same file, start line and start
\* character
NoTwoAlike(locations) ==
    \A i, j \in DOMAIN locations : i # j => locations[i] # locations[j]

firstIndexOf(locations, location) ==
    CHOOSE i \in DOMAIN locations :
        /\ locations[i] = location
        /\ \A j \in 1..(i - 1) : locations[j] # location

\* getUniqueLocations keeps exactly the first occurrence of each location
\* of the list, in the order of the list, and changes no list it returned
KeepsFirstOccurrences(locations) ==
    LET unique == getUniqueLocations(locations) IN
    /\ NoTwoAlike(unique)
    /\ {unique[i] : i \in DOMAIN unique} = {locations[i] : i \in DOMAIN locations}
    /\ \A i, j \in DOMAIN unique :
          i < j => firstIndexOf(locations, unique[i]) < firstIndexOf(locations, unique[j])
    /\ getUniqueLocations(unique) = unique

\* C28: the list findReferences returns never holds a location twice, in
\* whichever category it was produced and whatever the reference provider
\* listed; getUniqueLocations keeps the first occurrence of each location,
\* keeps the order and is idempotent.
C28_ReferencesDeduplicated ==
    res.op = "references" =>
        /\ NoTwoAlike(res.locations)
        /\ KeepsFirstOccurrences(res.locations \o
                                 executeReferenceProvider(req.uri, req.position))

(***************************************************************************)
(* Properties of the order of the sibling files.                           *)
(***************************************************************************)
\* the sibling files of the request in the order the workspace lists them,
\* and in every other order
siblingFiles ==
    IF req.to = "go" THEN findGoFilesInSameDirectory(req.fileUri)
    ELSE findTsFilesInSameDirectory(req.fileUri)

Reordered(files) ==
    {[i \in DOMAIN files |-> files[p[i]]] : p \in Permutations(DOMAIN files)}

\* the scan, and the finder of the request, run over a given file list
scanOver(files) ==
    IF req.to = "go"
    THEN findMatchingSymbolsInGoFiles(files, goSearchNames(req.symbolName),
             req.isSourceExported, req.symbolKind, isStrictExportEnabled)
    ELSE findMatchingSymbolsInTsFiles(files, tsSearchNames(req.symbolName),
             req.isSourceExported, req.symbolKind, isStrictExportEnabled)

finderOver(files) ==
    IF req.op = "selectReferences"
    THEN IF req.to = "go"
         THEN findSymbolReferencesInGoFiles(files, goSearchNames(req.symbolName),
                  req.isSourceExported, req.symbolKind)
         ELSE findSymbolReferencesInTsFiles(files, tsSearchNames(req.symbolName),
                  req.isSourceExported, req.symbolKind)
    ELSE IF req.to = "go"
         THEN findSymbolDeclarationInGoFiles(files, goSearchNames(req.symbolName),
                  req.isSourceExported, req.symbolKind)
         ELSE findSymbolDeclarationInTsFiles(files, tsSearchNames(req.symbolName),
                  req.isSourceExported, req.symbolKind)

elementsOf(seq) == {seq[i] : i \in DOMAIN seq}

\* C29: in whatever order the sibling files are listed, the scored scan
\* selects the same set of top-score candidates and the finder returns the
\* same set of declarations (of deduplicated references).
C29_FileOrderIrrelevant ==
    SelectAnswered =>
        \A files \in Reordered(siblingFiles) :
            /\ elementsOf(bestCandidates(scanOver(files)))
                  = elementsOf(bestCandidates(res.candidates))
            /\ elementsOf(finderOver(files).locations) = elementsOf(res.locations)
            /\ elementsOf(finderOver(files).counterparts) = elementsOf(res.counterparts)

\* C29 witness: both sibling files hold an accepted candidate, the scan
\* over the files in the other order lists the candidates differently, and
\* the finder returned a location
C29_OrderOfCandidatesDiffers ==
    /\ SelectAnswered
    /\ Len(siblingFiles) = 2
    /\ Len(res.candidates) = 2
    /\ res.candidates[1].fileUri # res.candidates[2].fileUri
    /\ scanOver(<<siblingFiles[2], siblingFiles[1]>>) # res.candidates
    /\ res.locations # <<>>

(***************************************************************************)
(* The provider state machine under the assumption that every external     *)
(* call comes back: an awaited call of a running request returns or throws *)
(* (PlainCall), the request makes the provider call it has come to         *)
(* (ExecuteProvider), a provider call resolves once the providers it       *)
(* invoked have returned (ProviderCallReturns), and the finder, whose      *)
(* loops run over the finite lists of files, symbols and candidates,       *)
(* reaches its return (FinderReturns).  The editor's requests and the      *)
(* user's changes of the setting are under no obligation.                  *)
(*                                                                         *)
(* provideImplementation on a typescript document cannot go on without     *)
(* its call of vscode.executeImplementationProvider, so the bounded list   *)
(* of activations keeps one place for the invocation that call makes: an   *)
(* invocation is recorded only if that place is left.                      *)
(***************************************************************************)
AwaitingNativeCall ==
    {a \in DOMAIN acts : acts[a].pc = "running" /\ acts[a].stage = "nativeTs"}

RoomLeft == Len(acts) + Cardinality(AwaitingNativeCall) <= MaxActs

\* Request and ExecuteProvider while the place is left
BoundedRequest == Request /\ RoomLeft'

BoundedExecuteProvider == ExecuteProvider /\ RoomLeft'

LiveNext ==
    \/ BoundedRequest
    \/ PlainCall
    \/ BoundedExecuteProvider
    \/ ProviderCallReturns
    \/ FinderReturns
    \/ ConfigChange

LiveSpec ==
    /\ Init
    /\ [][LiveNext]_vars
    /\ WF_vars(PlainCall)
    /\ WF_vars(BoundedExecuteProvider)
    /\ WF_vars(ProviderCallReturns)
    /\ WF_vars(FinderReturns)

\* the accepted activations on the chain of callers of a, a included
RECURSIVE AcceptedDepth(_)
AcceptedDepth(a) ==
    IF a = 0 THEN 0
    ELSE (IF acts[a].entry = "accepted" THEN 1 ELSE 0) + AcceptedDepth(acts[a].parent)

\* C30: if every external call returns or throws, every request that set
\* the flag of its provider returns, and a flag that is set is cleared
\* again; once the requests are completed both flags are clear (so the next
\* request is accepted); and the provider calls never nest more than one
\* accepted request of each provider.
C30_EveryAcceptedRequestReturns ==
    /\ \A a \in 1..MaxActs :
          (a \in DOMAIN acts /\ acts[a].entry = "accepted")
             ~> (a \in DOMAIN acts /\ acts[a].pc = "returned")
    /\ \A k \in Kinds : GuardHeld(k) ~> ~GuardHeld(k)
    /\ [](AllCompleted => NoStateRetained)
    /\ [](\A a \in DOMAIN acts : AcceptedDepth(a) <= Cardinality(Kinds))

\* C30 witness: an implementation request whose reference-provider call
\* came back into this extension and was accepted there has returned, as
\* has the nested request, and both flags are clear
C30_NestedRequestsCompleted ==
    \E a, b \in DOMAIN acts :
        /\ acts[b].parent = a
        /\ acts[a].entry = "accepted"
        /\ acts[b].entry = "accepted"
        /\ acts[a].pc = "returned"
        /\ acts[b].pc = "returned"
        /\ AllCompleted
        /\ NoStateRetained

====
